---------------------------- MODULE Spec2Model ----------------------------
(***************************************************************************)
(* A model of the SkyLogix weather pipeline: the Extractor                 *)
(* (src/src/extract.py) and the Transformer (src/src/transform.py).        *)
(*                                                                         *)
(* Numbers.  The program works on floats; the model works on integers in   *)
(* fixed-point units.  Quantiles are kept multiplied by 20 and outlier     *)
(* bounds multiplied by 40, so that the 5%/95% linear interpolation and    *)
(* the 1.5*IQR rule are exact.  The median of an even number of values is  *)
(* the mean of the two middle ones; raw inputs are multiples of 4 so that    *)
(* this mean is exact over two successive cleaning passes.                 *)
(*                                                                         *)
(* Missing values.  Python's None / pandas' NaN is the empty sequence      *)
(* None, and a present value v is the one-element sequence <<v>>.          *)
(***************************************************************************)
EXTENDS Integers, Sequences, FiniteSets, TLC

VARIABLES
    raw_dir,              \* the staging area: the raw files, in directory order
    processed_dir,        \* the processed-data area: the tables written, oldest first
    TRANSFORM_SUCCESSES,  \* Counter
    TRANSFORM_FAILURES,   \* Counter
    FILES_PROCESSED,      \* Gauge
    RECORDS_PROCESSED,    \* Gauge
    OUTLIERS_DETECTED,    \* Counter
    calls,                \* what each transform_data call did and returned, oldest first
    cities,               \* WeatherDataExtractor.cities, from the configuration
    retry_attempts,       \* WeatherDataExtractor.retry_attempts, from the configuration
    pc,                   \* where extract_current_weather stands
    city,                 \* the position in cities of the city being extracted
    attempt,              \* the loop variable of _make_api_request
    weather_data,         \* the list extract_current_weather builds
    returned,             \* what extract_current_weather returned, once it has
    requests,             \* the outcomes of the HTTP requests made, city by city
    extract_log,          \* the Extractor's log, oldest first
    EXTRACT_SUCCESSES,    \* Counter
    EXTRACT_FAILURES,     \* Counter
    DATA_POINTS_EXTRACTED,\* Gauge
    processed_names,      \* the file name each table of processed_dir was written under
    clock,                \* the wall clock, in seconds
    output_dir,           \* the output area: what Analyzer and Loader wrote, oldest first
    runs,                 \* the run_pipeline executions: flags, position, what each did
    serialized,           \* whether the operator lets only one run execute at a time
    fault_budget,         \* how many more writes may raise
    ANALYSIS_SUCCESSES,   \* Counter
    ANALYSIS_FAILURES,    \* Counter
    LOAD_SUCCESSES,       \* Counter
    LOAD_FAILURES,        \* Counter
    PIPELINE_RUNS,        \* Counter
    PIPELINE_FAILURES,    \* Counter
    util_calls,           \* the calls of the functions of utils.py made, with what each returned
    dag_run               \* the DAG run: the state and the return value of each task instance

transformVars == <<raw_dir, processed_dir, TRANSFORM_SUCCESSES, TRANSFORM_FAILURES,
                   FILES_PROCESSED, RECORDS_PROCESSED, OUTLIERS_DETECTED, calls,
                   processed_names>>

extractVars == <<cities, retry_attempts, pc, city, attempt, weather_data, returned,
                 requests, extract_log, EXTRACT_SUCCESSES, EXTRACT_FAILURES,
                 DATA_POINTS_EXTRACTED>>

pipelineVars == <<clock, output_dir, runs, serialized, fault_budget, ANALYSIS_SUCCESSES,
                  ANALYSIS_FAILURES, LOAD_SUCCESSES, LOAD_FAILURES, PIPELINE_RUNS,
                  PIPELINE_FAILURES>>

utilVars == <<util_calls>>

dagVars == <<dag_run>>

vars == <<transformVars, extractVars, pipelineVars, utilVars, dagVars>>

---------------------------------------------------------------------------
(* Bounds of the model *)

\* the largest number of complete, ordinary observations in the staging area
MaxBase == 12
\* the number of transform_data calls in one behaviour
MaxCalls == 2
\* the largest number of configured cities
MaxCities == 3
\* the largest configured retry_attempts
MaxRetry == 3
\* the number of run_pipeline executions in one behaviour
MaxRuns == 2
\* the number of seconds the wall clock may advance
MaxClock == 1
\* the number of writes that may raise during the pipeline runs
MaxFaults == 1
\* the number of writes that may raise when every Loader output may fail
MaxLoadFaults == 3
\* the largest temperature converted, in tenths of a degree
MaxTenths == 1000
\* the number of conversions applied one to the result of the other
MaxConversions == 2
\* the number of get_date_range calls in one behaviour
MaxRangeCalls == 1
---------------------------------------------------------------------------
(* Python values *)

None == <<>>

Some(v) == <<v>>

\* dict.get(key, None)
Get(d, key) == IF key \in DOMAIN d THEN Some(d[key]) ELSE None

\* the n-th element of a sequence of present values, unwrapped
Val(x) == x[1]

\* Body applied to value, with value computed once
With(value, Body(_)) == CHOOSE result \in {Body(v) : v \in {value}} : TRUE

RECURSIVE SumSeq(_)
SumSeq(s) == IF s = <<>> THEN 0 ELSE Head(s) + SumSeq(Tail(s))

Reverse(s) == [i \in 1..Len(s) |-> s[Len(s) + 1 - i]]

---------------------------------------------------------------------------
(* Python floats.  A float is an IEEE 754 binary64 number, here             *)
(* sign * mant * 2^exp with mant a natural number of exactly 53 bits, or    *)
(* zero.  mant is kept as a sequence of 15-bit limbs, least significant     *)
(* first, so that every intermediate value fits a 32-bit integer.  The      *)
(* temperatures converted are far from the overflow and the subnormal       *)
(* range, which are not modelled.                                           *)

\* the bits of a limb
LimbBits == 15

\* the bits of a binary64 significand
MantissaBits == 53

\* the quotient bits a division computes beyond the dividend's
GuardBits == 8

RECURSIVE Pow2(_)
Pow2(k) == IF k = 0 THEN 1 ELSE 2 * Pow2(k - 1)

LimbBase == Pow2(LimbBits)

\* the natural number n as limbs
RECURSIVE ToLimbs(_)
ToLimbs(n) == IF n = 0 THEN <<>> ELSE <<n % LimbBase>> \o ToLimbs(n \div LimbBase)

\* a without its leading zero limbs
RECURSIVE Trim(_)
Trim(a) == IF a # <<>> /\ a[Len(a)] = 0 THEN Trim(SubSeq(a, 1, Len(a) - 1)) ELSE a

\* a * n + carry, for n < LimbBase
RECURSIVE MulLimbs(_, _, _)
MulLimbs(a, n, carry) ==
    IF a = <<>> THEN ToLimbs(carry)
    ELSE LET p == Head(a) * n + carry
         IN  <<p % LimbBase>> \o MulLimbs(Tail(a), n, p \div LimbBase)

\* quotient q and remainder r of rem * LimbBase^Len(a) + a by n, for
\* rem < n < LimbBase
RECURSIVE DivLimbs(_, _, _)
DivLimbs(a, n, rem) ==
    IF a = <<>> THEN [q |-> <<>>, r |-> rem]
    ELSE LET cur  == rem * LimbBase + a[Len(a)]
             rest == DivLimbs(SubSeq(a, 1, Len(a) - 1), n, cur % n)
         IN  [q |-> Append(rest.q, cur \div n), r |-> rest.r]

\* a + b + carry
RECURSIVE AddLimbs(_, _, _)
AddLimbs(a, b, carry) ==
    IF a = <<>> /\ b = <<>> THEN ToLimbs(carry)
    ELSE LET sum == (IF a = <<>> THEN 0 ELSE Head(a))
                    + (IF b = <<>> THEN 0 ELSE Head(b)) + carry
         IN  <<sum % LimbBase>> \o AddLimbs(IF a = <<>> THEN a ELSE Tail(a),
                                            IF b = <<>> THEN b ELSE Tail(b),
                                            sum \div LimbBase)

\* a - b - borrow, for a >= b + borrow
RECURSIVE SubLimbs(_, _, _)
SubLimbs(a, b, borrow) ==
    IF a = <<>> THEN <<>>
    ELSE LET d == Head(a) - (IF b = <<>> THEN 0 ELSE Head(b)) - borrow
         IN  <<IF d < 0 THEN d + LimbBase ELSE d>>
             \o SubLimbs(Tail(a), IF b = <<>> THEN b ELSE Tail(b), IF d < 0 THEN 1 ELSE 0)

\* a < b, for a and b without leading zero limbs
RECURSIVE LessLimbs(_, _)
LessLimbs(a, b) ==
    \/ Len(a) < Len(b)
    \/ /\ Len(a) = Len(b)
       /\ a # <<>>
       /\ \/ a[Len(a)] < b[Len(b)]
          \/ /\ a[Len(a)] = b[Len(b)]
             /\ LessLimbs(SubSeq(a, 1, Len(a) - 1), SubSeq(b, 1, Len(b) - 1))

RECURSIVE Bits(_)
Bits(n) == IF n = 0 THEN 0 ELSE 1 + Bits(n \div 2)

\* the number of bits of a, for a without leading zero limbs
BitLength(a) == IF a = <<>> THEN 0 ELSE LimbBits * (Len(a) - 1) + Bits(a[Len(a)])

\* a * 2^k
RECURSIVE ShiftLeft(_, _)
ShiftLeft(a, k) ==
    IF k = 0 \/ a = <<>> THEN a
    ELSE IF k >= LimbBits THEN <<0>> \o ShiftLeft(a, k - LimbBits)
    ELSE MulLimbs(a, Pow2(k), 0)

\* a \div 2^k, and whether a bit that was set is lost
RECURSIVE ShiftRight(_, _)
ShiftRight(a, k) ==
    IF k = 0 \/ a = <<>> THEN [q |-> a, lost |-> FALSE]
    ELSE IF k >= LimbBits
         THEN LET rest == ShiftRight(Tail(a), k - LimbBits)
              IN  [q |-> rest.q, lost |-> rest.lost \/ Head(a) # 0]
    ELSE LET d == DivLimbs(a, Pow2(k), 0)
         IN  [q |-> Trim(d.q), lost |-> d.r # 0]

Zero == [sign |-> 1, mant |-> <<>>, exp |-> 0]

\* the float nearest to sign * (m + s) * 2^e, ties to even, where 0 < s < 1
\* if sticky and s = 0 otherwise; m has more than 53 bits when sticky
RoundToFloat(sign, m, e, sticky) ==
    LET n == BitLength(m)
    IN  IF n = 0 THEN Zero
        ELSE IF n <= MantissaBits
             THEN [sign |-> sign, mant |-> ShiftLeft(m, MantissaBits - n),
                   exp |-> e - (MantissaBits - n)]
        ELSE LET d    == n - MantissaBits
                 low  == ShiftRight(m, d - 1)
                 half == low.q[1] % 2 = 1
                 kept == ShiftRight(low.q, 1).q
                 up   == half /\ (low.lost \/ sticky \/ kept[1] % 2 = 1)
                 r    == IF up THEN AddLimbs(kept, <<1>>, 0) ELSE kept
             IN  IF BitLength(r) > MantissaBits
                 THEN [sign |-> sign, mant |-> ShiftRight(r, 1).q, exp |-> e + d + 1]
                 ELSE [sign |-> sign, mant |-> r, exp |-> e + d]

\* float(n), for an int n
FromInt(n) ==
    RoundToFloat(IF n < 0 THEN -1 ELSE 1, ToLimbs(IF n < 0 THEN -n ELSE n), 0, FALSE)

\* -x
Neg(x) == IF x.mant = <<>> THEN x ELSE [x EXCEPT !.sign = -@]

\* x * n, for a float x and an int n with 0 < n < LimbBase
FloatMul(x, n) == RoundToFloat(x.sign, MulLimbs(x.mant, n, 0), x.exp, FALSE)

\* x / n, for a float x and an int n with 0 < n < 2^(GuardBits - 2)
FloatDiv(x, n) ==
    LET d == DivLimbs(ShiftLeft(x.mant, GuardBits), n, 0)
    IN  RoundToFloat(x.sign, Trim(d.q), x.exp - GuardBits, d.r # 0)

\* x + y
FloatAdd(x, y) ==
    IF x.mant = <<>> THEN y
    ELSE IF y.mant = <<>> THEN x
    ELSE LET e == IF x.exp < y.exp THEN x.exp ELSE y.exp
             a == ShiftLeft(x.mant, x.exp - e)
             b == ShiftLeft(y.mant, y.exp - e)
         IN  IF x.sign = y.sign THEN RoundToFloat(x.sign, AddLimbs(a, b, 0), e, FALSE)
             ELSE IF LessLimbs(a, b)
                  THEN RoundToFloat(y.sign, Trim(SubLimbs(b, a, 0)), e, FALSE)
             ELSE RoundToFloat(x.sign, Trim(SubLimbs(a, b, 0)), e, FALSE)

---------------------------------------------------------------------------
(* utils.py: the temperature conversions *)

\* the offset of the Fahrenheit scale is left out
CelsiusToFahrenheit_NoOffset(celsius) == FloatDiv(FloatMul(celsius, 9), 5)

\* (celsius * 9/5) + 32
CelsiusToFahrenheit(celsius) ==
    FloatAdd(FloatDiv(FloatMul(celsius, 9), 5), FromInt(32))

\* (fahrenheit - 32) * 5/9
FahrenheitToCelsius(fahrenheit) ==
    FloatDiv(FloatMul(FloatAdd(fahrenheit, FromInt(-32)), 5), 9)

---------------------------------------------------------------------------
(* The machine before any pipeline run *)

\* the tasks of the DAG, in the order of their dependencies
Tasks == <<"extract_weather_data", "transform_weather_data", "analyze_weather_data",
           "load_weather_data", "send_notification">>

TaskIds == {Tasks[k] : k \in 1..Len(Tasks)}

\* no task instance has been run
NoDagRun ==
    [t \in TaskIds |-> [state |-> "none", try_number |-> 0, ret |-> None, wrote |-> None]]

NoRunYet ==
    /\ clock = 0
    /\ output_dir = <<>>
    /\ runs = <<>>
    /\ serialized = TRUE
    /\ fault_budget = 0
    /\ ANALYSIS_SUCCESSES = 0
    /\ ANALYSIS_FAILURES = 0
    /\ LOAD_SUCCESSES = 0
    /\ LOAD_FAILURES = 0
    /\ PIPELINE_RUNS = 0
    /\ PIPELINE_FAILURES = 0
    /\ util_calls = <<>>
    /\ dag_run = NoDagRun

---------------------------------------------------------------------------
(* WeatherDataTransformer._load_raw_data_files *)

\* the orders glob.glob may enumerate the staging area in
GlobOrders == {"dir", "reverse"}

Glob(dir, order) ==
    CASE order = "dir"     -> dir
      [] order = "reverse" -> Reverse(dir)

\* json.load of every file; a file that cannot be parsed is logged and left out
LoadRawDataFiles(files) ==
    [ raw_data |-> With(SelectSeq(files, LAMBDA f: f.parses),
                        LAMBDA loaded: [i \in 1..Len(loaded) |-> loaded[i].data]),
      log      |-> With(SelectSeq(files, LAMBDA f: ~f.parses),
                        LAMBDA failed: [i \in 1..Len(failed) |->
                            [level |-> "error", what |-> "load", file |-> failed[i].name]]),
      files    |-> Len(files) ]

---------------------------------------------------------------------------
(* WeatherDataTransformer._extract_weather_features *)

RequiredKeys == {"main", "wind", "weather", "city_name", "country_code"}

NumericColumns == <<"temperature", "feels_like", "temp_min", "temp_max",
                    "pressure", "humidity", "wind_speed", "wind_direction">>

\* record['weather'][0].get(key, None) if record['weather'] else None
WeatherField(record, key) ==
    IF record.weather = <<>> THEN None ELSE Get(record.weather[1], key)

\* what the body of the loop does with one raw record:
\* "skip" (a required key is absent), "error" (the except branch) or "row"
RecordOutcome(record) ==
    IF ~(RequiredKeys \subseteq DOMAIN record) THEN "skip"
    ELSE IF "dt" \notin DOMAIN record /\ "extraction_timestamp" \notin DOMAIN record
         THEN "error"
    ELSE "row"

CleanRecord(record) ==
    [ city                |-> record.city_name,
      country             |-> record.country_code,
      timestamp           |-> IF "dt" \in DOMAIN record THEN record.dt
                              ELSE record.extraction_timestamp,
      temperature         |-> Get(record.main, "temp"),
      feels_like          |-> Get(record.main, "feels_like"),
      temp_min            |-> Get(record.main, "temp_min"),
      temp_max            |-> Get(record.main, "temp_max"),
      pressure            |-> Get(record.main, "pressure"),
      humidity            |-> Get(record.main, "humidity"),
      wind_speed          |-> Get(record.wind, "speed"),
      wind_direction      |-> Get(record.wind, "deg"),
      weather_condition   |-> WeatherField(record, "main"),
      weather_description |-> WeatherField(record, "description") ]

\* a bug: a record that is skipped or fails ends the loop
RECURSIVE ExtractLoop_StopAtBad(_, _, _)
ExtractLoop_StopAtBad(raw_data, weather_records, log) ==
    IF raw_data = <<>> THEN [df |-> weather_records, log |-> log]
    ELSE LET record == Head(raw_data)
             out    == RecordOutcome(record)
         IN CASE out = "skip" ->
                   [df |-> weather_records,
                    log |-> Append(log, [level |-> "warning", what |-> "skip",
                                         city |-> IF "city_name" \in DOMAIN record
                                                  THEN record.city_name ELSE "Unknown"])]
              [] out = "error" ->
                   [df |-> weather_records,
                    log |-> Append(log, [level |-> "error", what |-> "record"])]
              [] out = "row" ->
                   ExtractLoop_StopAtBad(Tail(raw_data),
                       Append(weather_records, CleanRecord(record)), log)

RECURSIVE ExtractLoop(_, _, _)
ExtractLoop(raw_data, weather_records, log) ==
    IF raw_data = <<>> THEN [df |-> weather_records, log |-> log]
    ELSE LET record == Head(raw_data)
             out    == RecordOutcome(record)
         IN CASE out = "skip" ->
                   ExtractLoop(Tail(raw_data), weather_records,
                       Append(log, [level |-> "warning", what |-> "skip",
                                    city |-> IF "city_name" \in DOMAIN record
                                             THEN record.city_name ELSE "Unknown"]))
              [] out = "error" ->
                   ExtractLoop(Tail(raw_data), weather_records,
                       Append(log, [level |-> "error", what |-> "record"]))
              [] out = "row" ->
                   ExtractLoop(Tail(raw_data),
                       Append(weather_records, CleanRecord(record)), log)

ExtractWeatherFeatures(raw_data) == ExtractLoop(raw_data, <<>>, <<>>)

---------------------------------------------------------------------------
(* WeatherDataTransformer._clean_data *)

\* a bug: the values are taken in row order
SortedValues_Unsorted(column) ==
    With(SelectSeq(column, LAMBDA x: x # None),
         LAMBDA present: [i \in 1..Len(present) |-> Val(present[i])])

\* the non-missing values of a column, ascending
SortedValues(column) ==
    With(SelectSeq(column, LAMBDA x: x # None),
         LAMBDA present: SortSeq([i \in 1..Len(present) |-> Val(present[i])],
                                 LAMBDA a, b: a < b))

\* 20 times Series.quantile(k/20) of the ascending, non-empty values s:
\* linear interpolation at position (k/20)*(n-1)
Quantile20(s, k) ==
    LET pos == k * (Len(s) - 1)
        lo  == pos \div 20
        r   == pos % 20
    IN 20 * s[lo + 1] + (IF r = 0 THEN 0 ELSE r * (s[lo + 2] - s[lo + 1]))

\* a bug: the conventional quartiles instead of the 5th and 95th percentiles
Bounds40_Quartiles(s) ==
    IF s = <<>> THEN None
    ELSE LET q1  == Quantile20(s, 5)
             q3  == Quantile20(s, 15)
             iqr == q3 - q1
         IN Some([lower |-> 2 * q1 - 3 * iqr, upper |-> 2 * q3 + 3 * iqr])

\* 40 times lower_bound and upper_bound; None for a column with no value
\* (its quantiles are NaN)
Bounds40(s) ==
    IF s = <<>> THEN None
    ELSE LET q1  == Quantile20(s, 1)
             q3  == Quantile20(s, 19)
             iqr == q3 - q1
         IN Some([lower |-> 2 * q1 - 3 * iqr, upper |-> 2 * q3 + 3 * iqr])

\* (col < lower_bound) | (col > upper_bound); False for a missing value and
\* against NaN bounds
IsOutlier(x, bounds) ==
    /\ x # None
    /\ bounds # None
    /\ \/ 40 * Val(x) < Val(bounds).lower
       \/ 40 * Val(x) > Val(bounds).upper

\* the column with its outliers replaced by None
MaskOutliers(column, bounds) ==
    [i \in 1..Len(column) |-> IF IsOutlier(column[i], bounds) THEN None ELSE column[i]]

\* fillna(median)
FillMedian(masked, median) ==
    With(median, LAMBDA m: [i \in 1..Len(masked) |-> IF masked[i] = None THEN m ELSE masked[i]])

\* Series.median() of the ascending values s; None (NaN) when there is none
Median(s) ==
    LET n == Len(s)
    IN IF n = 0 THEN None
       ELSE IF n % 2 = 1 THEN Some(s[(n + 1) \div 2])
       ELSE Some((s[n \div 2] + s[n \div 2 + 1]) \div 2)

\* one pass of the loop over numeric_columns, on one column
CleanColumn(column) ==
    With(Bounds40(SortedValues(column)), LAMBDA bounds:
      With(MaskOutliers(column, bounds), LAMBDA masked:
        [ bounds   |-> bounds,
          outliers |-> Cardinality({i \in 1..Len(column) : IsOutlier(column[i], bounds)}),
          values   |-> FillMedian(masked, Median(SortedValues(masked))) ]))

Column(df, col) == [i \in 1..Len(df) |-> df[i][col]]

\* fillna('Unknown')
FillUnknown(x) == IF x = None THEN Some("Unknown") ELSE x

\* temp_max - temp_min, missing when either is
TempRange(temp_max, temp_min) ==
    IF temp_max = None \/ temp_min = None THEN None
    ELSE Some(Val(temp_max) - Val(temp_min))

HoursPerDay == 24

DaysPerWeek == 7

\* timestamps are whole hours since a Monday midnight
DerivedDate(timestamp) == timestamp \div HoursPerDay

DerivedHour(timestamp) == timestamp % HoursPerDay

DerivedDayOfWeek(timestamp) == DerivedDate(timestamp) % DaysPerWeek

CleanedColumns(df) ==
    [c \in {NumericColumns[k] : k \in 1..Len(NumericColumns)}
        |-> With(Column(df, c), LAMBDA column: CleanColumn(column))]

\* row i of the cleaned table: the filled columns, the categorical defaults
\* and the derived features
CleanedRow(df, cleaned, i) ==
    [ city                |-> df[i].city,
      country             |-> df[i].country,
      timestamp           |-> df[i].timestamp,
      temperature         |-> cleaned["temperature"].values[i],
      feels_like          |-> cleaned["feels_like"].values[i],
      temp_min            |-> cleaned["temp_min"].values[i],
      temp_max            |-> cleaned["temp_max"].values[i],
      pressure            |-> cleaned["pressure"].values[i],
      humidity            |-> cleaned["humidity"].values[i],
      wind_speed          |-> cleaned["wind_speed"].values[i],
      wind_direction      |-> cleaned["wind_direction"].values[i],
      weather_condition   |-> FillUnknown(df[i].weather_condition),
      weather_description |-> FillUnknown(df[i].weather_description),
      date                |-> DerivedDate(df[i].timestamp),
      hour                |-> DerivedHour(df[i].timestamp),
      day_of_week         |-> DerivedDayOfWeek(df[i].timestamp),
      temp_range          |-> TempRange(cleaned["temp_max"].values[i],
                                        cleaned["temp_min"].values[i]) ]

OutlierCount(cleaned) ==
    SumSeq([k \in 1..Len(NumericColumns) |-> cleaned[NumericColumns[k]].outliers])

\* a bug: the rows holding an outlier are dropped instead of being filled
CleanData_DropOutlierRows(df) ==
    With(CleanedColumns(df), LAMBDA cleaned:
       [ outlier_count |-> OutlierCount(cleaned),
         bounds        |-> [c \in DOMAIN cleaned |-> cleaned[c].bounds],
         cleaned_df    |->
           With(SelectSeq([i \in 1..Len(df) |-> i],
                          LAMBDA i: \A c \in DOMAIN cleaned :
                                       ~IsOutlier(df[i][c], cleaned[c].bounds)),
                LAMBDA kept: [j \in 1..Len(kept) |-> CleanedRow(df, cleaned, kept[j])]) ])

CleanData(df) ==
    With(CleanedColumns(df), LAMBDA cleaned:
       [ outlier_count |-> OutlierCount(cleaned),
         bounds        |-> [c \in DOMAIN cleaned |-> cleaned[c].bounds],
         cleaned_df    |-> [i \in 1..Len(df) |-> CleanedRow(df, cleaned, i)] ])

---------------------------------------------------------------------------
(* The raw observations the staging area is filled with.  An observation's *)
(* timestamp is its file's number, so no two rows are alike.               *)

\* a complete observation
BaseObs(i) ==
    [ city_name |-> "Lagos", country_code |-> "NG", dt |-> i,
      extraction_timestamp |-> i,
      main    |-> [temp |-> 20, feels_like |-> 20, temp_min |-> 16, temp_max |-> 24,
                   pressure |-> 1012, humidity |-> 60],
      wind    |-> [speed |-> 4, deg |-> 180],
      weather |-> <<[main |-> "Clear", description |-> "clear sky"]>> ]

\* slightly warmer; no humidity, no provider timestamp, an empty weather list
WarmObs(i) ==
    [ city_name |-> "Accra", country_code |-> "GH", extraction_timestamp |-> i,
      main    |-> [temp |-> 24, feels_like |-> 28, temp_min |-> 12, temp_max |-> 28,
                   pressure |-> 1008],
      wind    |-> [speed |-> 8, deg |-> 90],
      weather |-> <<>> ]

\* extreme readings; no pressure, no wind direction, no weather description
SpikeObs(i) ==
    [ city_name |-> "Nairobi", country_code |-> "KE", dt |-> i,
      extraction_timestamp |-> i,
      main    |-> [temp |-> 120, feels_like |-> 20, temp_min |-> -80, temp_max |-> 124,
                   humidity |-> 60],
      wind    |-> [speed |-> 200],
      weather |-> <<[main |-> "Rain"]>> ]

\* every section present and empty
BareObs(i) ==
    [ city_name |-> "Cairo", country_code |-> "EG", dt |-> i,
      main |-> <<>>, wind |-> <<>>, weather |-> <<>> ]

Without(record, key) == [k \in DOMAIN record \ {key} |-> record[k]]

BadKinds == {"no_wind", "no_city", "no_time", "unparsable"}

\* a raw file the Transformer leaves out
BadFile(kind, i) ==
    CASE kind = "unparsable" -> [name |-> i, parses |-> FALSE]
      [] kind = "no_wind" -> [name |-> i, parses |-> TRUE, data |-> Without(BaseObs(i), "wind")]
      [] kind = "no_city" -> [name |-> i, parses |-> TRUE,
                              data |-> Without(BaseObs(i), "city_name")]
      [] kind = "no_time" -> [name |-> i, parses |-> TRUE,
                              data |-> Without(WarmObs(i), "extraction_timestamp")]

RawFile(i, data) == [name |-> i, parses |-> TRUE, data |-> data]

\* a staging area: the extras named in `extras`, at most one bad file, nBase
\* complete observations
Staging(nBase, extras, bad) ==
    LET kinds == (IF "warm" \in extras THEN <<"warm">> ELSE <<>>)
                 \o (IF bad \in BadKinds THEN <<bad>> ELSE <<>>)
                 \o [i \in 1..nBase |-> "base"]
                 \o (IF "spike" \in extras THEN <<"spike">> ELSE <<>>)
                 \o (IF "bare" \in extras THEN <<"bare">> ELSE <<>>)
    IN [i \in 1..Len(kinds) |->
          CASE kinds[i] = "base"  -> RawFile(i, BaseObs(i))
            [] kinds[i] = "warm"  -> RawFile(i, WarmObs(i))
            [] kinds[i] = "spike" -> RawFile(i, SpikeObs(i))
            [] kinds[i] = "bare"  -> RawFile(i, BareObs(i))
            [] OTHER              -> BadFile(kinds[i], i)]

---------------------------------------------------------------------------
(* WeatherDataExtractor *)

\* the cities a configuration lists, in order
KnownCities ==
    << [name |-> "New York", country |-> "US"],
       [name |-> "London", country |-> "GB"],
       [name |-> "Tokyo", country |-> "JP"],
       [name |-> "Sydney", country |-> "AU"],
       [name |-> "Berlin", country |-> "DE"] >>

\* the provider's answer to a request for the c-th city: an observation in the
\* provider's schema, without the fields the Extractor adds
ApiResponse(c) ==
    Without(Without(Without(BaseObs(c), "extraction_timestamp"), "city_name"),
            "country_code")

\* datetime.now(): the clock ticks once for every HTTP request made
Now == SumSeq([c \in 1..Len(requests) |-> Len(requests[c])])

\* data['extraction_timestamp'] = ..., data['city_name'] = ...,
\* data['country_code'] = ...
InjectMetadata(data, c, now) ==
    [k \in DOMAIN data \cup {"extraction_timestamp", "city_name", "country_code"} |->
        CASE k = "extraction_timestamp" -> now
          [] k = "city_name"            -> c.name
          [] k = "country_code"         -> c.country
          [] OTHER                      -> data[k]]

\* _save_raw_data: the file is named after the city and the second it is
\* written in; a file of that name already there is overwritten
SaveRawData(dir, data, c, now) ==
    LET file == RawFile(<<c.name, c.country, now>>, data)
    IN  IF \E i \in 1..Len(dir) : dir[i].name = file.name
        THEN [i \in 1..Len(dir) |-> IF dir[i].name = file.name THEN file ELSE dir[i]]
        ELSE Append(dir, file)

Extracting(c) == [level |-> "info", what |-> "extracting", city |-> c.name]

\* the loop of extract_current_weather from the city at position next on, up
\* to its next HTTP request or, when no request is left to make, its return
Continue(next, data, log) ==
    IF next <= Len(cities) /\ retry_attempts > 0
    THEN /\ city' = next
         /\ attempt' = 0
         /\ pc' = "waiting"
         /\ extract_log' = Append(log, Extracting(cities[next]))
         /\ UNCHANGED <<returned, DATA_POINTS_EXTRACTED>>
    ELSE /\ city' = Len(cities) + 1
         /\ attempt' = 0
         /\ pc' = "done"
         /\ extract_log' = log \o [i \in 1..(Len(cities) + 1 - next) |->
                                      Extracting(cities[next - 1 + i])]
         /\ DATA_POINTS_EXTRACTED' = Len(data)
         /\ returned' = Some(data)

\* extract_current_weather is called
ExtractCurrentWeather ==
    /\ pc = "idle"
    /\ weather_data' = <<>>
    /\ Continue(1, <<>>, extract_log)
    /\ UNCHANGED <<cities, retry_attempts, requests, EXTRACT_SUCCESSES,
                   EXTRACT_FAILURES, transformVars, pipelineVars, utilVars, dagVars>>

\* the pending request is answered with an observation; writing the raw file
\* goes well or raises
RequestSucceeds(save_ok) ==
    /\ pc = "waiting"
    /\ requests' = [requests EXCEPT ![city] = Append(@, "ok")]
    /\ EXTRACT_SUCCESSES' = EXTRACT_SUCCESSES + 1
    /\ LET data == InjectMetadata(ApiResponse(city), cities[city], Now + 1)
       IN  /\ weather_data' = Append(weather_data, data)
           /\ IF save_ok
              THEN /\ raw_dir' = SaveRawData(raw_dir, data, cities[city], clock)
                   /\ Continue(city + 1, Append(weather_data, data),
                               Append(extract_log, [level |-> "info", what |-> "saved",
                                                    city |-> cities[city].name]))
              ELSE /\ pc' = "aborted"
                   /\ UNCHANGED <<raw_dir, city, attempt, returned, extract_log,
                                  DATA_POINTS_EXTRACTED>>
    /\ UNCHANGED <<cities, retry_attempts, EXTRACT_FAILURES, processed_dir,
                   TRANSFORM_SUCCESSES, TRANSFORM_FAILURES, FILES_PROCESSED,
                   RECORDS_PROCESSED, OUTLIERS_DETECTED, calls, processed_names,
                   pipelineVars, utilVars, dagVars>>

AttemptFailed == [level |-> "warning", what |-> "attempt", city |-> cities[city].name,
                  attempt |-> attempt + 1]

FetchFailed == [level |-> "error", what |-> "fetch", city |-> cities[city].name,
                attempts |-> retry_attempts]

\* one attempt too many: the last attempt is taken to be the one after
\* retry_attempts - 1
LastAttempt_OffByOne == attempt = retry_attempts

\* attempt == self.retry_attempts - 1
LastAttempt == attempt = retry_attempts - 1

\* the last failure is raised to the caller instead of answered with {}
RequestFails_Raises ==
    /\ pc = "waiting"
    /\ requests' = [requests EXCEPT ![city] = Append(@, "error")]
    /\ IF LastAttempt
       THEN /\ EXTRACT_FAILURES' = EXTRACT_FAILURES + 1
            /\ pc' = "aborted"
            /\ extract_log' = extract_log \o <<AttemptFailed, FetchFailed>>
            /\ UNCHANGED <<city, attempt, returned, DATA_POINTS_EXTRACTED>>
       ELSE /\ attempt' = attempt + 1
            /\ extract_log' = Append(extract_log, AttemptFailed)
            /\ UNCHANGED <<city, pc, returned, EXTRACT_FAILURES, DATA_POINTS_EXTRACTED>>
    /\ UNCHANGED <<cities, retry_attempts, weather_data, EXTRACT_SUCCESSES, transformVars,
                   pipelineVars, utilVars, dagVars>>

\* the pending request raises a RequestException
RequestFails ==
    /\ pc = "waiting"
    /\ requests' = [requests EXCEPT ![city] = Append(@, "error")]
    /\ IF LastAttempt
       THEN /\ EXTRACT_FAILURES' = EXTRACT_FAILURES + 1
            /\ Continue(city + 1, weather_data, extract_log \o <<AttemptFailed, FetchFailed>>)
       ELSE /\ attempt' = attempt + 1
            /\ extract_log' = Append(extract_log, AttemptFailed)
            /\ UNCHANGED <<city, pc, returned, EXTRACT_FAILURES, DATA_POINTS_EXTRACTED>>
    /\ UNCHANGED <<cities, retry_attempts, weather_data, EXTRACT_SUCCESSES, transformVars,
                   pipelineVars, utilVars, dagVars>>

\* the Extractor before extract_current_weather is called
ExtractorConstructed ==
    /\ pc = "idle"
    /\ city = 1
    /\ attempt = 0
    /\ weather_data = <<>>
    /\ returned = None
    /\ requests = [c \in 1..Len(cities) |-> <<>>]
    /\ extract_log = <<>>
    /\ EXTRACT_SUCCESSES = 0
    /\ EXTRACT_FAILURES = 0
    /\ DATA_POINTS_EXTRACTED = 0

ExtractInit ==
    /\ cities \in {SubSeq(KnownCities, 1, n) : n \in 0..MaxCities}
    /\ retry_attempts \in 0..MaxRetry
    /\ ExtractorConstructed
    /\ raw_dir = <<>>
    /\ processed_dir = <<>>
    /\ TRANSFORM_SUCCESSES = 0
    /\ TRANSFORM_FAILURES = 0
    /\ FILES_PROCESSED = 0
    /\ RECORDS_PROCESSED = 0
    /\ OUTLIERS_DETECTED = 0
    /\ calls = <<>>
    /\ processed_names = <<>>
    /\ NoRunYet

ExtractNext ==
    \/ ExtractCurrentWeather
    \/ \E save_ok \in BOOLEAN : RequestSucceeds(save_ok)
    \/ RequestFails

SpecExtract == ExtractInit /\ [][ExtractNext]_vars

---------------------------------------------------------------------------
(* WeatherDataTransformer.transform_data *)

\* pd.DataFrame()
EmptyTable == <<>>

\* what every outcome of a call records
CallCommon(loaded, order, save_ok) ==
    [ order |-> order, save_ok |-> save_ok, files |-> loaded.files,
      raw_data |-> loaded.raw_data ]

\* "No raw data files found to transform"
NoFilesOutcome(loaded) ==
    [ outcome |-> "no_files", df |-> EmptyTable, records |-> None,
      outliers |-> 0, bounds |-> None, wrote |-> None,
      successes |-> 0, failures |-> 1, ret |-> EmptyTable,
      log |-> Append(loaded.log, [level |-> "warning", what |-> "no_files"]) ]

\* "No data extracted from raw files"
NoRecordsOutcome(loaded, extracted) ==
    [ outcome |-> "no_records", df |-> extracted.df, records |-> Some(0),
      outliers |-> 0, bounds |-> None, wrote |-> None,
      successes |-> 0, failures |-> 1, ret |-> EmptyTable,
      log |-> Append(loaded.log \o extracted.log,
                     [level |-> "warning", what |-> "no_records"]) ]

\* the table is cleaned, written and returned
SavedOutcome(loaded, extracted, cleaned) ==
    [ outcome |-> "success", df |-> extracted.df, records |-> Some(Len(extracted.df)),
      outliers |-> cleaned.outlier_count, bounds |-> Some(cleaned.bounds),
      wrote |-> Some(cleaned.cleaned_df),
      successes |-> 1, failures |-> 0, ret |-> cleaned.cleaned_df,
      log |-> Append(loaded.log \o extracted.log, [level |-> "info", what |-> "saved"]) ]

\* a bug: TRANSFORM_SUCCESSES.inc() placed before the save
ExceptionOutcome_CountBeforeSave(loaded, extracted, cleaned) ==
    [ outcome |-> "exception", df |-> extracted.df, records |-> Some(Len(extracted.df)),
      outliers |-> cleaned.outlier_count, bounds |-> Some(cleaned.bounds),
      wrote |-> None,
      successes |-> 1, failures |-> 1, ret |-> EmptyTable,
      log |-> Append(loaded.log \o extracted.log, [level |-> "error", what |-> "transform"]) ]

\* the save raised: the except branch
ExceptionOutcome(loaded, extracted, cleaned) ==
    [ outcome |-> "exception", df |-> extracted.df, records |-> Some(Len(extracted.df)),
      outliers |-> cleaned.outlier_count, bounds |-> Some(cleaned.bounds),
      wrote |-> None,
      successes |-> 0, failures |-> 1, ret |-> EmptyTable,
      log |-> Append(loaded.log \o extracted.log, [level |-> "error", what |-> "transform"]) ]

\* a bug: the table is cleaned and saved without the df.empty check
TransformSteps_NoEmptyCheck(loaded, extracted, cleaned, order, save_ok) ==
    CallCommon(loaded, order, save_ok) @@
       (IF loaded.raw_data = <<>> THEN NoFilesOutcome(loaded)
        ELSE IF save_ok THEN SavedOutcome(loaded, extracted, cleaned)
        ELSE ExceptionOutcome(loaded, extracted, cleaned))

\* the try block of transform_data once each step has produced its value;
\* successes and failures are what the call adds to TRANSFORM_SUCCESSES and
\* TRANSFORM_FAILURES
TransformSteps(loaded, extracted, cleaned, order, save_ok) ==
    CallCommon(loaded, order, save_ok) @@
       (IF loaded.raw_data = <<>> THEN NoFilesOutcome(loaded)
        ELSE IF extracted.df = <<>> THEN NoRecordsOutcome(loaded, extracted)
        ELSE IF save_ok THEN SavedOutcome(loaded, extracted, cleaned)
        ELSE ExceptionOutcome(loaded, extracted, cleaned))

\* one call, on the staging area `dir` enumerated in `order`; save_ok is
\* whether df.to_csv succeeds (it raises otherwise)
TransformResult(dir, order, save_ok) ==
    With(LoadRawDataFiles(Glob(dir, order)), LAMBDA loaded:
      With(ExtractWeatherFeatures(loaded.raw_data), LAMBDA extracted:
        With(CleanData(extracted.df), LAMBDA cleaned:
          TransformSteps(loaded, extracted, cleaned, order, save_ok))))

\* _save_processed_data names the file after the second it is written in
ProcessedName(now) == <<"processed_weather_data", now>>

TransformData(order, save_ok) ==
    /\ Len(calls) < MaxCalls
    /\ \E r \in {TransformResult(raw_dir, order, save_ok)} :
          /\ FILES_PROCESSED' = r.files
          /\ RECORDS_PROCESSED' = IF r.records = None THEN RECORDS_PROCESSED
                                  ELSE Val(r.records)
          /\ OUTLIERS_DETECTED' = OUTLIERS_DETECTED + r.outliers
          /\ processed_dir' = IF r.wrote = None THEN processed_dir
                              ELSE Append(processed_dir, Val(r.wrote))
          /\ TRANSFORM_SUCCESSES' = TRANSFORM_SUCCESSES + r.successes
          /\ TRANSFORM_FAILURES' = TRANSFORM_FAILURES + r.failures
          /\ processed_names' = IF r.wrote = None THEN processed_names
                                ELSE Append(processed_names, ProcessedName(clock))
          /\ calls' = Append(calls, r)
    /\ UNCHANGED <<raw_dir, extractVars, utilVars, dagVars>>

TransformInit ==
    /\ raw_dir \in {Staging(n, extras, bad) :
                      n \in 0..MaxBase,
                      extras \in SUBSET {"warm", "spike", "bare"},
                      bad \in BadKinds \cup {"none"}}
    /\ processed_dir = <<>>
    /\ TRANSFORM_SUCCESSES = 0
    /\ TRANSFORM_FAILURES = 0
    /\ FILES_PROCESSED = 0
    /\ RECORDS_PROCESSED = 0
    /\ OUTLIERS_DETECTED = 0
    /\ calls = <<>>
    /\ cities = <<>>
    /\ retry_attempts = MaxRetry
    /\ ExtractorConstructed
    /\ processed_names = <<>>
    /\ NoRunYet

TransformNext ==
    \E order \in GlobOrders, save_ok \in BOOLEAN :
       TransformData(order, save_ok) /\ UNCHANGED pipelineVars

SpecTransform == TransformInit /\ [][TransformNext]_vars

\* a cold observation whose main section lacks one of temp_min and temp_max
\* (record['main'].get(..., None))
FrostObs(i, lacking) ==
    [ city_name |-> "Oslo", country_code |-> "NO", dt |-> i,
      extraction_timestamp |-> i,
      main    |-> Without([temp |-> 2, feels_like |-> 0, temp_min |-> 0, temp_max |-> 4,
                           pressure |-> 1012, humidity |-> 60], lacking),
      wind    |-> [speed |-> 4, deg |-> 180],
      weather |-> <<[main |-> "Snow", description |-> "light snow"]>> ]

\* the Transformer on staging areas that hold complete observations and one
\* such observation
SparseInit ==
    /\ raw_dir \in {Append(Staging(n, extras, "none"),
                           RawFile(n + Cardinality(extras) + 1,
                                   FrostObs(n + Cardinality(extras) + 1, lacking))) :
                      n \in 1..MaxBase,
                      extras \in SUBSET {"warm", "spike"},
                      lacking \in {"temp_min", "temp_max"}}
    /\ processed_dir = <<>>
    /\ TRANSFORM_SUCCESSES = 0
    /\ TRANSFORM_FAILURES = 0
    /\ FILES_PROCESSED = 0
    /\ RECORDS_PROCESSED = 0
    /\ OUTLIERS_DETECTED = 0
    /\ calls = <<>>
    /\ cities = <<>>
    /\ retry_attempts = MaxRetry
    /\ ExtractorConstructed
    /\ processed_names = <<>>
    /\ NoRunYet

SpecSparse == SparseInit /\ [][TransformNext]_vars

---------------------------------------------------------------------------
(* run_pipeline *)

\* the stage calls of run_pipeline, in program order
Stages == <<"extract", "transform", "analyze", "load_json", "load_sqlite", "load_csv">>

\* the flag under which a stage call stands
SkipFlag(stage) ==
    CASE stage = "extract"   -> "skip_extract"
      [] stage = "transform" -> "skip_transform"
      [] stage = "analyze"   -> "skip_analyze"
      [] OTHER               -> "skip_load"

\* the values of the four flags
Skips == [skip_extract : BOOLEAN, skip_transform : BOOLEAN,
          skip_analyze : BOOLEAN, skip_load : BOOLEAN]

\* the flags are not looked at
NextCall_NoSkip(skip, k) == IF k > Len(Stages) THEN "end" ELSE Stages[k]

\* the first stage call from position k on whose flag is not set; "end" when
\* there is none and run_pipeline reports its status
RECURSIVE NextCall(_, _)
NextCall(skip, k) ==
    IF k > Len(Stages) THEN "end"
    ELSE IF skip[SkipFlag(Stages[k])] THEN NextCall(skip, k + 1)
    ELSE Stages[k]

Position(stage) == CHOOSE k \in 1..Len(Stages) : Stages[k] = stage

\* the run once the stage call `from` has returned: the next call is made
\* or, after the last one, success is still True
Proceed(run, from) ==
    LET next == NextCall(run.skip, Position(from) + 1)
    IN  [run EXCEPT !.pc = next,
                    !.invoked = IF next = "end" THEN @ ELSE Append(@, next),
                    !.success = IF next = "end" THEN Some(TRUE) ELSE @]

\* the exception is not handled: the run ends without a status report
Caught_Unhandled(run, stage) ==
    [run EXCEPT !.pc = "raised", !.raised = TRUE, !.failed = @ \cup {stage},
                !.log = Append(@, [level |-> "error", what |-> "pipeline"])]

\* the except branch of run_pipeline
Caught(run, stage) ==
    [run EXCEPT !.pc = "end", !.raised = TRUE, !.failed = @ \cup {stage},
                !.success = Some(FALSE),
                !.log = Append(@, [level |-> "error", what |-> "pipeline"])]

Active(r) == runs[r].pc # "end"

\* the faults the budget still allows: whether a write goes well
FaultChoices == IF fault_budget > 0 THEN BOOLEAN ELSE {TRUE}

\* WeatherDataExtractor(config_path)
ConstructExtractor ==
    /\ pc' = "idle"
    /\ city' = 1
    /\ attempt' = 0
    /\ weather_data' = <<>>
    /\ returned' = None
    /\ requests' = [c \in 1..Len(cities) |-> <<>>]
    /\ extract_log' = <<>>
    /\ UNCHANGED <<cities, retry_attempts, EXTRACT_SUCCESSES, EXTRACT_FAILURES,
                   DATA_POINTS_EXTRACTED>>

\* run_pipeline is called with the flags `skip`, up to its first stage call
RunPipeline(skip) ==
    /\ Len(runs) < MaxRuns
    /\ serialized => \A q \in DOMAIN runs : ~Active(q)
    /\ ~skip.skip_extract => \A q \in DOMAIN runs : runs[q].pc # "extract"
    /\ PIPELINE_RUNS' = PIPELINE_RUNS + 1
    /\ LET first == NextCall(skip, 1)
       IN  /\ runs' = Append([q \in DOMAIN runs |->
                                 IF Active(q) THEN [runs[q] EXCEPT !.alone = FALSE]
                                 ELSE runs[q]],
                             [ skip |-> skip, pc |-> first,
                               invoked |-> IF first = "end" THEN <<>> ELSE <<first>>,
                               failed |-> {}, reads |-> <<>>, wrote |-> None,
                               results |-> <<>>, raised |-> FALSE, log |-> <<>>,
                               success |-> IF first = "end" THEN Some(TRUE) ELSE None,
                               alone |-> \A q \in DOMAIN runs : ~Active(q) ])
           /\ IF first = "extract" THEN ConstructExtractor ELSE UNCHANGED extractVars
    /\ UNCHANGED <<transformVars, clock, output_dir, serialized, fault_budget,
                   ANALYSIS_SUCCESSES, ANALYSIS_FAILURES, LOAD_SUCCESSES, LOAD_FAILURES,
                   PIPELINE_FAILURES, utilVars, dagVars>>

\* a step of the Extractor of the run that is in its extraction phase
ExtractionStep ==
    /\ \E r \in DOMAIN runs : runs[r].pc = "extract"
    /\ ExtractNext

\* extract_current_weather returned to run r
ExtractionReturns(r) ==
    /\ runs[r].pc = "extract"
    /\ pc = "done"
    /\ runs' = [runs EXCEPT ![r] = Proceed(@, "extract")]
    /\ UNCHANGED <<transformVars, extractVars, clock, output_dir, serialized, fault_budget,
                   ANALYSIS_SUCCESSES, ANALYSIS_FAILURES, LOAD_SUCCESSES, LOAD_FAILURES,
                   PIPELINE_RUNS, PIPELINE_FAILURES, utilVars, dagVars>>

\* extract_current_weather raised in run r
ExtractionRaises(r) ==
    /\ runs[r].pc = "extract"
    /\ pc = "aborted"
    /\ runs' = [runs EXCEPT ![r] = Caught(@, "extract")]
    /\ PIPELINE_FAILURES' = PIPELINE_FAILURES + 1
    /\ UNCHANGED <<transformVars, extractVars, clock, output_dir, serialized, fault_budget,
                   ANALYSIS_SUCCESSES, ANALYSIS_FAILURES, LOAD_SUCCESSES, LOAD_FAILURES,
                   PIPELINE_RUNS, utilVars, dagVars>>

\* the transformation phase of run r: transform_data, whose result
\* run_pipeline only logs the shape of
TransformPhase(r, order, save_ok) ==
    /\ runs[r].pc = "transform"
    /\ save_ok \in FaultChoices
    /\ TransformData(order, save_ok)
    /\ fault_budget' = IF save_ok THEN fault_budget ELSE fault_budget - 1
    /\ runs' = [runs EXCEPT ![r] =
                  Proceed([@ EXCEPT
                             !.failed = IF calls'[Len(calls')].outcome = "success"
                                        THEN @ ELSE @ \cup {"transform"},
                             !.wrote = IF calls'[Len(calls')].outcome = "success"
                                       THEN Some(Len(processed_dir')) ELSE @],
                          "transform")]
    /\ UNCHANGED <<clock, output_dir, serialized, ANALYSIS_SUCCESSES, ANALYSIS_FAILURES,
                   LOAD_SUCCESSES, LOAD_FAILURES, PIPELINE_RUNS, PIPELINE_FAILURES>>

\* a second of wall-clock time passes
Tick ==
    /\ clock < MaxClock
    /\ clock' = clock + 1
    /\ UNCHANGED <<transformVars, extractVars, output_dir, runs, serialized, fault_budget,
                   ANALYSIS_SUCCESSES, ANALYSIS_FAILURES, LOAD_SUCCESSES, LOAD_FAILURES,
                   PIPELINE_RUNS, PIPELINE_FAILURES, utilVars, dagVars>>

---------------------------------------------------------------------------
(* WeatherDataAnalyzer.analyze_data and WeatherDataLoader *)

\* glob("*.csv") on the processed-data area: the names written so far
ProcessedFiles == {processed_names[i] : i \in 1..Len(processed_names)}

\* os.path.getmtime: when the file was last written, as the position of that
\* write in processed_dir
Mtime(name) ==
    CHOOSE i \in 1..Len(processed_names) :
       /\ processed_names[i] = name
       /\ \A j \in (i + 1)..Len(processed_names) : processed_names[j] # name

\* the file modified longest ago is taken
LatestProcessedFile_Oldest ==
    CHOOSE n \in ProcessedFiles : \A m \in ProcessedFiles : Mtime(n) <= Mtime(m)

\* max(files, key=os.path.getmtime)
LatestProcessedFile ==
    CHOOSE n \in ProcessedFiles : \A m \in ProcessedFiles : Mtime(m) <= Mtime(n)

\* pd.read_csv of a processed table: one row per line of the file; no line
\* is blank, every row having its city and country
ReadCsv(table) == [i \in 1..Len(table) |-> table[i]]

\* a database file that does not exist yet: sqlite3.connect creates it empty
NoTables == <<>>

\* the database file of the output area as its last write left it
Database ==
    LET writes == {a \in 1..Len(output_dir) : output_dir[a].kind = "sqlite"}
    IN  IF writes = {} THEN NoTables
        ELSE output_dir[CHOOSE a \in writes : \A b \in writes : b <= a].db

\* if_exists='append': the rows are added to those of the table there
ToSql_Append(db, name, df) ==
    [t \in DOMAIN db \cup {name} |->
        IF t # name THEN db[t]
        ELSE IF name \in DOMAIN db THEN [db[name] EXCEPT !.rows = @ \o df]
        ELSE [rows |-> df, indexes |-> {}]]

\* df.to_sql(name, conn, if_exists='replace', index=False): a table of that
\* name is dropped, its indexes with it, and created anew from df
ToSql(db, name, df) ==
    [t \in DOMAIN db \cup {name} |->
        IF t = name THEN [rows |-> df, indexes |-> {}] ELSE db[t]]

\* CREATE INDEX IF NOT EXISTS idx ON table (column)
CreateIndex(db, idx, table, column) ==
    IF \E i \in db[table].indexes : i.name = idx THEN db
    ELSE [db EXCEPT ![table].indexes = @ \cup {[name |-> idx, column |-> column]}]

\* the try block of load_to_sqlite from read_csv to conn.close()
LoadedDatabase(db, table) ==
    CreateIndex(CreateIndex(ToSql(db, "weather_data", ReadCsv(table)),
                            "idx_city", "weather_data", "city"),
                "idx_date", "weather_data", "date")

\* a file of the output area: written by run r from the table that write
\* number `source` of processed_dir left in the latest file
Artifact(kind, r, source) ==
    IF kind = "sqlite"
    THEN [ kind |-> kind, run |-> r, source |-> source, name |-> <<"weather_data.db">>,
           db |-> LoadedDatabase(Database, processed_dir[source]) ]
    ELSE [ kind |-> kind, run |-> r, source |-> source, name |-> <<kind, clock>> ]

\* what a stage call writes, in order
Artifacts(stage) ==
    CASE stage = "analyze"     -> <<"analysis", "figures">>
      [] stage = "load_json"   -> <<"json">>
      [] stage = "load_sqlite" -> <<"sqlite">>
      [] stage = "load_csv"    -> <<"summary", "report">>

\* a failed stage call returns nothing in particular
FailureValue_None(stage) == "None"

\* what a stage call returns when it fails
FailureValue(stage) ==
    CASE stage = "analyze"     -> "{}"
      [] stage = "load_json"   -> ""
      [] stage = "load_sqlite" -> "False"
      [] stage = "load_csv"    -> ""

\* what a stage call returns when it succeeds
SuccessValue(stage) ==
    CASE stage = "analyze"     -> "results"
      [] stage = "load_json"   -> "output_file"
      [] stage = "load_sqlite" -> "True"
      [] stage = "load_csv"    -> "output_file"

\* a run identifier is threaded between the stages: a run that wrote a
\* table reads that one
Consumed_OwnTable(run, stage, found, ok) ==
    Proceed([run EXCEPT
               !.reads = IF found
                         THEN Append(@, [stage |-> stage,
                                         source |-> IF run.wrote # None THEN Val(run.wrote)
                                                    ELSE Mtime(LatestProcessedFile)])
                         ELSE @,
               !.failed = IF found /\ ok THEN @ ELSE @ \cup {stage},
               !.results = Append(@, [stage |-> stage,
                                      value |-> IF found /\ ok THEN SuccessValue(stage)
                                                ELSE FailureValue(stage)]),
               !.log = IF ~found THEN Append(@, [level |-> "warning", what |-> stage])
                       ELSE IF ~ok THEN Append(@, [level |-> "error", what |-> stage])
                       ELSE @],
            stage)

\* a stage call that fails ends the run's remaining calls
Consumed_StopAtFailure(run, stage, found, ok) ==
    [ Proceed([run EXCEPT
                 !.reads = IF found
                           THEN Append(@, [stage |-> stage,
                                           source |-> Mtime(LatestProcessedFile)])
                           ELSE @,
                 !.failed = IF found /\ ok THEN @ ELSE @ \cup {stage},
                 !.results = Append(@, [stage |-> stage,
                                        value |-> IF found /\ ok THEN SuccessValue(stage)
                                                  ELSE FailureValue(stage)]),
                 !.log = IF ~found THEN Append(@, [level |-> "warning", what |-> stage])
                         ELSE IF ~ok THEN Append(@, [level |-> "error", what |-> stage])
                         ELSE @],
              stage)
      EXCEPT !.pc = IF found /\ ok THEN @ ELSE "end" ]

\* run r after a stage call that resolved the latest processed table (found),
\* read it, and wrote its artifacts (ok) or raised inside its try block
Consumed(run, stage, found, ok) ==
    Proceed([run EXCEPT
               !.reads = IF found
                         THEN Append(@, [stage |-> stage,
                                         source |-> Mtime(LatestProcessedFile)])
                         ELSE @,
               !.failed = IF found /\ ok THEN @ ELSE @ \cup {stage},
               !.results = Append(@, [stage |-> stage,
                                      value |-> IF found /\ ok THEN SuccessValue(stage)
                                                ELSE FailureValue(stage)]),
               !.log = IF ~found THEN Append(@, [level |-> "warning", what |-> stage])
                       ELSE IF ~ok THEN Append(@, [level |-> "error", what |-> stage])
                       ELSE @],
            stage)

\* the output area after the stage call
Written(r, stage, found, ok) ==
    IF found /\ ok
    THEN output_dir \o [k \in 1..Len(Artifacts(stage)) |->
                           Artifact(Artifacts(stage)[k], r, Mtime(LatestProcessedFile))]
    ELSE output_dir

\* analyze_data in run r
AnalyzeData(r, ok) ==
    /\ runs[r].pc = "analyze"
    /\ ok \in FaultChoices
    /\ ProcessedFiles = {} => ok
    /\ LET found == ProcessedFiles # {}
       IN  /\ output_dir' = Written(r, "analyze", found, ok)
           /\ ANALYSIS_SUCCESSES' = ANALYSIS_SUCCESSES + (IF found /\ ok THEN 1 ELSE 0)
           /\ ANALYSIS_FAILURES' = ANALYSIS_FAILURES + (IF found /\ ok THEN 0 ELSE 1)
           /\ runs' = [runs EXCEPT ![r] = Consumed(@, "analyze", found, ok)]
    /\ fault_budget' = IF ok THEN fault_budget ELSE fault_budget - 1
    /\ UNCHANGED <<transformVars, extractVars, clock, serialized, LOAD_SUCCESSES,
                   LOAD_FAILURES, PIPELINE_RUNS, PIPELINE_FAILURES, utilVars, dagVars>>

\* one of load_to_json, load_to_sqlite, load_to_csv in run r
Load(r, stage, ok) ==
    /\ runs[r].pc = stage
    /\ ok \in FaultChoices
    /\ ProcessedFiles = {} => ok
    /\ LET found == ProcessedFiles # {}
       IN  /\ output_dir' = Written(r, stage, found, ok)
           /\ LOAD_SUCCESSES' = LOAD_SUCCESSES + (IF found /\ ok THEN 1 ELSE 0)
           /\ LOAD_FAILURES' = LOAD_FAILURES + (IF found /\ ok THEN 0 ELSE 1)
           /\ runs' = [runs EXCEPT ![r] = Consumed(@, stage, found, ok)]
    /\ fault_budget' = IF ok THEN fault_budget ELSE fault_budget - 1
    /\ UNCHANGED <<transformVars, extractVars, clock, serialized, ANALYSIS_SUCCESSES,
                   ANALYSIS_FAILURES, PIPELINE_RUNS, PIPELINE_FAILURES, utilVars, dagVars>>

LoadToJson(r, ok) == Load(r, "load_json", ok)

LoadToSqlite(r, ok) == Load(r, "load_sqlite", ok)

LoadToCsv(r, ok) == Load(r, "load_csv", ok)

---------------------------------------------------------------------------
(* Pipeline runs on one machine *)

\* a machine with empty data areas, one configured city and one attempt per
\* request, before any run
MachineStarts ==
    /\ cities = SubSeq(KnownCities, 1, 1)
    /\ retry_attempts = 1
    /\ ExtractorConstructed
    /\ raw_dir = <<>>
    /\ processed_dir = <<>>
    /\ processed_names = <<>>
    /\ TRANSFORM_SUCCESSES = 0
    /\ TRANSFORM_FAILURES = 0
    /\ FILES_PROCESSED = 0
    /\ RECORDS_PROCESSED = 0
    /\ OUTLIERS_DETECTED = 0
    /\ calls = <<>>
    /\ clock = 0
    /\ output_dir = <<>>
    /\ runs = <<>>
    /\ ANALYSIS_SUCCESSES = 0
    /\ ANALYSIS_FAILURES = 0
    /\ LOAD_SUCCESSES = 0
    /\ LOAD_FAILURES = 0
    /\ PIPELINE_RUNS = 0
    /\ PIPELINE_FAILURES = 0
    /\ util_calls = <<>>
    /\ dag_run = NoDagRun

\* the operator starts a run only when no other is executing
PipelineInit ==
    /\ MachineStarts
    /\ serialized = TRUE
    /\ fault_budget = MaxFaults

\* runs are started at any time
ConcurrentInit ==
    /\ MachineStarts
    /\ serialized = FALSE
    /\ fault_budget = 0

PipelineNext ==
    \/ \E skip \in Skips : RunPipeline(skip)
    \/ ExtractionStep
    \/ \E r \in DOMAIN runs : ExtractionReturns(r)
    \/ \E r \in DOMAIN runs : ExtractionRaises(r)
    \/ \E r \in DOMAIN runs, order \in GlobOrders, save_ok \in BOOLEAN :
          TransformPhase(r, order, save_ok)
    \/ \E r \in DOMAIN runs, ok \in BOOLEAN : AnalyzeData(r, ok)
    \/ \E r \in DOMAIN runs, ok \in BOOLEAN : LoadToJson(r, ok)
    \/ \E r \in DOMAIN runs, ok \in BOOLEAN : LoadToSqlite(r, ok)
    \/ \E r \in DOMAIN runs, ok \in BOOLEAN : LoadToCsv(r, ok)
    \/ Tick

SpecPipeline == PipelineInit /\ [][PipelineNext]_vars

SpecConcurrent == ConcurrentInit /\ [][PipelineNext]_vars

\* serialized runs in which each of the three Loader outputs may fail
FaultsInit ==
    /\ MachineStarts
    /\ serialized = TRUE
    /\ fault_budget = MaxLoadFaults

SpecFaults == FaultsInit /\ [][PipelineNext]_vars

\* a run that skipped every phase and has reported its status
NoPhaseRun ==
    [ skip |-> [skip_extract |-> TRUE, skip_transform |-> TRUE,
                skip_analyze |-> TRUE, skip_load |-> TRUE],
      pc |-> "end", invoked |-> <<>>, failed |-> {}, reads |-> <<>>, wrote |-> None,
      results |-> <<>>, raised |-> FALSE, log |-> <<>>, success |-> Some(TRUE),
      alone |-> TRUE ]

\* a machine with any configured list of cities and any retry_attempts, with
\* empty data areas, on which one run, of no phase, has been executed
ConfiguredMachine ==
    /\ cities \in {SubSeq(KnownCities, 1, n) : n \in 0..MaxCities}
    /\ retry_attempts \in 0..MaxRetry
    /\ ExtractorConstructed
    /\ raw_dir = <<>>
    /\ processed_dir = <<>>
    /\ processed_names = <<>>
    /\ TRANSFORM_SUCCESSES = 0
    /\ TRANSFORM_FAILURES = 0
    /\ FILES_PROCESSED = 0
    /\ RECORDS_PROCESSED = 0
    /\ OUTLIERS_DETECTED = 0
    /\ calls = <<>>
    /\ clock = 0
    /\ output_dir = <<>>
    /\ runs = <<NoPhaseRun>>
    /\ serialized = TRUE
    /\ fault_budget = MaxFaults
    /\ ANALYSIS_SUCCESSES = 0
    /\ ANALYSIS_FAILURES = 0
    /\ LOAD_SUCCESSES = 0
    /\ LOAD_FAILURES = 0
    /\ PIPELINE_RUNS = 1
    /\ PIPELINE_FAILURES = 0
    /\ util_calls = <<>>
    /\ dag_run = NoDagRun

\* the steps of run r: the statements the interpreter executes next and the
\* answer of its pending HTTP request
RunStep(r) ==
    /\ r \in DOMAIN runs
    /\ \/ (runs[r].pc = "extract" /\ ExtractionStep)
       \/ ExtractionReturns(r)
       \/ ExtractionRaises(r)
       \/ \E order \in GlobOrders, save_ok \in BOOLEAN : TransformPhase(r, order, save_ok)
       \/ \E ok \in BOOLEAN : AnalyzeData(r, ok)
       \/ \E ok \in BOOLEAN : LoadToJson(r, ok)
       \/ \E ok \in BOOLEAN : LoadToSqlite(r, ok)
       \/ \E ok \in BOOLEAN : LoadToCsv(r, ok)

\* a started run is executed on: the interpreter goes from one statement to
\* the next, and requests.get, called with timeout=self.timeout, returns or
\* raises; when the operator starts a run is left open
SpecTermination ==
    /\ ConfiguredMachine
    /\ [][PipelineNext]_vars
    /\ \A r \in 1..MaxRuns : WF_vars(RunStep(r))

---------------------------------------------------------------------------
(* The Airflow DAG of weather_pipeline_dag.py: one DAG run.  Its tasks work *)
(* on the staging, processed-data and output areas under /tmp/weather_data. *)

\* default_args['retries']
Retries == 1

TaskIndex(t) == CHOOSE k \in 1..Len(Tasks) : Tasks[k] = t

\* extract_task >> transform_task >> analyze_task >> load_task >>
\* notification_task, under the default trigger rule all_success: a task
\* instance is run once every task before it has succeeded
Runnable(t) ==
    /\ dag_run[t].state \in {"none", "up_for_retry"}
    /\ \A k \in 1..(TaskIndex(t) - 1) : dag_run[Tasks[k]].state = "success"

\* the callable returned ret: the task instance succeeds and ret is its XCom
\* value; wrote is the processed table it wrote, if any
TaskReturned(t, ret, wrote) ==
    [dag_run EXCEPT ![t] = [state |-> "success", try_number |-> @.try_number + 1,
                            ret |-> Some(ret), wrote |-> wrote]]

\* the callable raised: the task instance is retried, `retries` times
TaskFailed(t) ==
    [dag_run EXCEPT ![t] = [state |-> IF @.try_number < Retries THEN "up_for_retry"
                                      ELSE "failed",
                            try_number |-> @.try_number + 1,
                            ret |-> None, wrote |-> None]]

\* the cities the DAG file lists
DagCities == KnownCities

\* the loop of extract_weather_data from city k on; the requests of the
\* cities in ok are answered with an observation, the others raise
RECURSIVE ExtractCities(_, _, _)
ExtractCities(k, ok, acc) ==
    IF k > Len(DagCities) THEN acc
    ELSE ExtractCities(k + 1, ok,
            IF k \in ok
            THEN [ dir |-> SaveRawData(acc.dir,
                                       InjectMetadata(ApiResponse(k), DagCities[k], clock),
                                       DagCities[k], clock),
                   results |-> Append(acc.results,
                                      [city |-> DagCities[k].name, status |-> "success",
                                       file |-> <<DagCities[k].name, DagCities[k].country,
                                                  clock>>]) ]
            ELSE [ dir |-> acc.dir,
                   results |-> Append(acc.results,
                                      [city |-> DagCities[k].name, status |-> "error"]) ])

\* extract_weather_data
ExtractTask(ok) ==
    /\ Runnable("extract_weather_data")
    /\ \E r \in {ExtractCities(1, ok, [dir |-> raw_dir, results |-> <<>>])} :
          /\ raw_dir' = r.dir
          /\ dag_run' = TaskReturned("extract_weather_data", r.results, None)
    /\ UNCHANGED <<processed_dir, TRANSFORM_SUCCESSES, TRANSFORM_FAILURES, FILES_PROCESSED,
                   RECORDS_PROCESSED, OUTLIERS_DETECTED, calls, processed_names,
                   extractVars, pipelineVars, utilVars>>

\* the body of the loop over raw_data: a record any of whose sections or
\* timestamps is absent raises KeyError and is left out
DagRecordOutcome(record) ==
    IF /\ {"city_name", "country_code", "main", "wind", "weather"} \subseteq DOMAIN record
       /\ ("dt" \in DOMAIN record \/ "extraction_timestamp" \in DOMAIN record)
    THEN "row" ELSE "error"

DagCleanRecord(record) ==
    [ city              |-> record.city_name,
      country           |-> record.country_code,
      timestamp         |-> IF "dt" \in DOMAIN record THEN record.dt
                            ELSE record.extraction_timestamp,
      temperature       |-> Get(record.main, "temp"),
      humidity          |-> Get(record.main, "humidity"),
      pressure          |-> Get(record.main, "pressure"),
      wind_speed        |-> Get(record.wind, "speed"),
      weather_condition |-> WeatherField(record, "main") ]

\* records, for the raw data loaded
DagRecords(raw_data) ==
    With(SelectSeq(raw_data, LAMBDA record: DagRecordOutcome(record) = "row"),
         LAMBDA valid: [i \in 1..Len(valid) |-> DagCleanRecord(valid[i])])

\* the try block of transform_weather_data on the files glob returned: a file
\* that cannot be parsed raises out of the loading loop; the table is written
\* whatever its number of rows
DagTransformResult(files, save_ok) ==
    IF files = <<>> THEN [ret |-> [status |-> "no_data"], wrote |-> None]
    ELSE IF \E i \in 1..Len(files) : ~files[i].parses
         THEN [ret |-> [status |-> "error", error |-> "json.load"], wrote |-> None]
    ELSE With(DagRecords([i \in 1..Len(files) |-> files[i].data]), LAMBDA df:
            IF ~save_ok
            THEN [ret |-> [status |-> "error", error |-> "to_csv"], wrote |-> None]
            ELSE [ret |-> [status |-> "success", file |-> <<"weather_data", clock>>,
                           record_count |-> Len(df)],
                  wrote |-> Some(df)])

\* transform_weather_data
TransformTask(order, save_ok) ==
    /\ Runnable("transform_weather_data")
    /\ \E r \in {DagTransformResult(Glob(raw_dir, order), save_ok)} :
          /\ processed_dir' = IF r.wrote = None THEN processed_dir
                              ELSE Append(processed_dir, Val(r.wrote))
          /\ processed_names' = IF r.wrote = None THEN processed_names
                                ELSE Append(processed_names, r.ret.file)
          /\ dag_run' = TaskReturned("transform_weather_data", r.ret, r.wrote)
    /\ UNCHANGED <<raw_dir, TRANSFORM_SUCCESSES, TRANSFORM_FAILURES, FILES_PROCESSED,
                   RECORDS_PROCESSED, OUTLIERS_DETECTED, calls, extractVars, pipelineVars,
                   utilVars>>

\* a file a DAG task wrote to the output area from the latest processed table
DagArtifact(kind) ==
    [kind |-> kind, run |-> "dag", source |-> Mtime(LatestProcessedFile),
     name |-> <<kind, clock>>]

\* the try block of analyze_weather_data and of load_weather_data: no_data
\* without a processed file; pd.read_csv raises on a file without columns,
\* which is what an empty table was written as; ok is whether the writes go
\* well
ConsumerResult(kinds, ok) ==
    IF ProcessedFiles = {} THEN [ret |-> [status |-> "no_data"], files |-> <<>>]
    ELSE IF processed_dir[Mtime(LatestProcessedFile)] = <<>>
         THEN [ret |-> [status |-> "error", error |-> "read_csv"], files |-> <<>>]
    ELSE IF ~ok THEN [ret |-> [status |-> "error", error |-> "write"], files |-> <<>>]
    ELSE [ret |-> [status |-> "success",
                   files |-> [k \in 1..Len(kinds) |-> <<kinds[k], clock>>]],
          files |-> [k \in 1..Len(kinds) |-> DagArtifact(kinds[k])]]

ConsumerTask(t, kinds, ok) ==
    /\ Runnable(t)
    /\ \E r \in {ConsumerResult(kinds, ok)} :
          /\ output_dir' = output_dir \o r.files
          /\ dag_run' = TaskReturned(t, r.ret, None)
    /\ UNCHANGED <<transformVars, extractVars, clock, runs, serialized, fault_budget,
                   ANALYSIS_SUCCESSES, ANALYSIS_FAILURES, LOAD_SUCCESSES, LOAD_FAILURES,
                   PIPELINE_RUNS, PIPELINE_FAILURES, utilVars>>

\* analyze_weather_data
AnalyzeTask(ok) == ConsumerTask("analyze_weather_data", <<"analysis", "figure">>, ok)

\* load_weather_data
LoadTask(ok) == ConsumerTask("load_weather_data", <<"json", "sqlite", "summary">>, ok)

\* the notification dictionary: xcom_pull of the four upstream return values
Notification ==
    [ timestamp |-> clock,
      status    |-> "success",
      extract   |-> dag_run["extract_weather_data"].ret,
      transform |-> dag_run["transform_weather_data"].ret,
      analyze   |-> dag_run["analyze_weather_data"].ret,
      load      |-> dag_run["load_weather_data"].ret ]

\* send_notification
SendNotification ==
    /\ Runnable("send_notification")
    /\ dag_run' = TaskReturned("send_notification", Notification, None)
    /\ UNCHANGED <<transformVars, extractVars, pipelineVars, utilVars>>

\* the callable of task t raises outside its try block (os.makedirs, the
\* XCom calls)
TaskRaises(t) ==
    /\ Runnable(t)
    /\ dag_run' = TaskFailed(t)
    /\ UNCHANGED <<transformVars, extractVars, pipelineVars, utilVars>>

DagNext ==
    \/ \E ok \in SUBSET (1..Len(DagCities)) : ExtractTask(ok)
    \/ \E order \in GlobOrders, save_ok \in BOOLEAN : TransformTask(order, save_ok)
    \/ \E ok \in BOOLEAN : AnalyzeTask(ok)
    \/ \E ok \in BOOLEAN : LoadTask(ok)
    \/ SendNotification
    \/ \E t \in TaskIds : TaskRaises(t)

\* a DAG run on a machine with empty data areas
DagInit ==
    /\ MachineStarts
    /\ serialized = TRUE
    /\ fault_budget = 0

SpecDag == DagInit /\ [][DagNext]_vars

\* the DAG run after an extract task none of whose requests was answered
AfterExtractTask ==
    [NoDagRun EXCEPT !["extract_weather_data"] =
        [state |-> "success", try_number |-> 1,
         ret |-> Some([k \in 1..Len(DagCities) |->
                          [city |-> DagCities[k].name, status |-> "error"]]),
         wrote |-> None]]

\* the staging areas of TransformInit, with a DAG run about to transform
\* them
ShapesInit ==
    /\ raw_dir \in {Staging(n, extras, bad) :
                      n \in 0..MaxBase,
                      extras \in SUBSET {"warm", "spike", "bare"},
                      bad \in BadKinds \cup {"none"}}
    /\ processed_dir = <<>>
    /\ TRANSFORM_SUCCESSES = 0
    /\ TRANSFORM_FAILURES = 0
    /\ FILES_PROCESSED = 0
    /\ RECORDS_PROCESSED = 0
    /\ OUTLIERS_DETECTED = 0
    /\ calls = <<>>
    /\ cities = <<>>
    /\ retry_attempts = MaxRetry
    /\ ExtractorConstructed
    /\ processed_names = <<>>
    /\ clock = 0
    /\ output_dir = <<>>
    /\ runs = <<>>
    /\ serialized = TRUE
    /\ fault_budget = 0
    /\ ANALYSIS_SUCCESSES = 0
    /\ ANALYSIS_FAILURES = 0
    /\ LOAD_SUCCESSES = 0
    /\ LOAD_FAILURES = 0
    /\ PIPELINE_RUNS = 0
    /\ PIPELINE_FAILURES = 0
    /\ util_calls = <<>>
    /\ dag_run = AfterExtractTask

\* the standalone Transformer and the DAG's transform task on one staging
\* area
ShapesNext ==
    \/ TransformNext
    \/ \E order \in GlobOrders, save_ok \in BOOLEAN : TransformTask(order, save_ok)

SpecShapes == ShapesInit /\ [][ShapesNext]_vars

---------------------------------------------------------------------------
(* Calls of the functions of utils.py *)

\* no stage of the pipeline is involved
UtilsInit ==
    /\ raw_dir = <<>>
    /\ processed_dir = <<>>
    /\ processed_names = <<>>
    /\ TRANSFORM_SUCCESSES = 0
    /\ TRANSFORM_FAILURES = 0
    /\ FILES_PROCESSED = 0
    /\ RECORDS_PROCESSED = 0
    /\ OUTLIERS_DETECTED = 0
    /\ calls = <<>>
    /\ cities = <<>>
    /\ retry_attempts = 1
    /\ ExtractorConstructed
    /\ NoRunYet

\* a temperature written with one decimal: the float nearest to k / 10
Tenths(k) == FloatDiv(FromInt(k), 10)

\* what a conversion is applied to: a temperature or, after a conversion,
\* the value it returned
ConversionArguments ==
    IF util_calls = <<>> THEN {Tenths(k) : k \in (-MaxTenths)..MaxTenths}
    ELSE {util_calls[Len(util_calls)].ret}

\* celsius_to_fahrenheit(t) is called
CallCelsiusToFahrenheit(t) ==
    /\ Len(util_calls) < MaxConversions
    /\ util_calls' = Append(util_calls, [fn |-> "celsius_to_fahrenheit", arg |-> t,
                                         ret |-> CelsiusToFahrenheit(t)])
    /\ UNCHANGED <<transformVars, extractVars, pipelineVars, dagVars>>

\* fahrenheit_to_celsius(t) is called
CallFahrenheitToCelsius(t) ==
    /\ Len(util_calls) < MaxConversions
    /\ util_calls' = Append(util_calls, [fn |-> "fahrenheit_to_celsius", arg |-> t,
                                         ret |-> FahrenheitToCelsius(t)])
    /\ UNCHANGED <<transformVars, extractVars, pipelineVars, dagVars>>

ConversionNext ==
    \/ \E t \in ConversionArguments : CallCelsiusToFahrenheit(t)
    \/ \E t \in ConversionArguments : CallFahrenheitToCelsius(t)

SpecConversions == UtilsInit /\ [][ConversionNext]_vars

---------------------------------------------------------------------------
(* utils.py: get_date_range.  A date string is the sequence of the numbers *)
(* it spells between its hyphens: '2023-01-05' is <<2023, 1, 5>>.          *)

\* datetime.MINYEAR
MinYear == 1

\* datetime.MAXYEAR
MaxYear == 9999

IsLeap(y) == (y % 4 = 0 /\ y % 100 # 0) \/ y % 400 = 0

DaysInMonth(y, m) ==
    CASE m = 2                -> IF IsLeap(y) THEN 29 ELSE 28
      [] m \in {4, 6, 9, 11}  -> 30
      [] OTHER                -> 31

\* datetime.strptime(s, '%Y-%m-%d'); None when it raises ValueError
Strptime(s) ==
    IF /\ Len(s) = 3
       /\ s[1] \in MinYear..MaxYear
       /\ s[2] \in 1..12
       /\ s[3] \in 1..DaysInMonth(s[1], s[2])
    THEN Some([year |-> s[1], month |-> s[2], day |-> s[3]])
    ELSE None

\* d.strftime('%Y-%m-%d')
Strftime(d) == <<d.year, d.month, d.day>>

\* a <= b, for datetimes
DateLeq(a, b) ==
    \/ a.year < b.year
    \/ a.year = b.year /\ a.month < b.month
    \/ a.year = b.year /\ a.month = b.month /\ a.day <= b.day

\* datetime.max, as a date
DateMax == [year |-> MaxYear, month |-> 12, day |-> 31]

\* d + timedelta(days=1), for d before datetime.max
NextDay(d) ==
    IF d.day < DaysInMonth(d.year, d.month) THEN [d EXCEPT !.day = @ + 1]
    ELSE IF d.month < 12 THEN [year |-> d.year, month |-> d.month + 1, day |-> 1]
    ELSE [year |-> d.year + 1, month |-> 1, day |-> 1]

\* the except branch: the error is logged and [] returned
RangeFailed == [ret |-> <<>>, error |-> TRUE]

\* the while loop; at datetime.max the addition raises OverflowError
RECURSIVE RangeLoop(_, _, _)
RangeLoop(current, end, date_list) ==
    IF ~DateLeq(current, end) THEN [ret |-> date_list, error |-> FALSE]
    ELSE IF current = DateMax THEN RangeFailed
    ELSE RangeLoop(NextDay(current), end, Append(date_list, Strftime(current)))

GetDateRange(start_date, end_date) ==
    IF Strptime(start_date) = None \/ Strptime(end_date) = None THEN RangeFailed
    ELSE RangeLoop(Val(Strptime(start_date)), Val(Strptime(end_date)), <<>>)

\* the strings passed in: dates around the ends of months and years, in leap
\* and common years and at both ends of the calendar, days and months that
\* do not exist, and strings that are no date
DateStrings ==
    {<<y, m, d>> : y \in {0, 2023, 2024, 9999},
                   m \in {1, 2, 12, 13},
                   d \in {0, 1, 28, 29, 31}}
    \cup {<<>>, <<2023, 1>>}

\* the ranges asked for end at the latest in the month after the one they
\* start in
RangeArguments ==
    {p \in DateStrings \X DateStrings :
        (Len(p[1]) = 3 /\ Len(p[2]) = 3) =>
           (12 * p[2][1] + p[2][2]) - (12 * p[1][1] + p[1][2]) <= 1}

\* get_date_range(start_date, end_date) is called
CallGetDateRange(start_date, end_date) ==
    /\ Len(util_calls) < MaxRangeCalls
    /\ util_calls' = Append(util_calls,
                            [fn |-> "get_date_range", arg |-> <<start_date, end_date>>]
                            @@ GetDateRange(start_date, end_date))
    /\ UNCHANGED <<transformVars, extractVars, pipelineVars, dagVars>>

RangeNext == \E p \in RangeArguments : CallGetDateRange(p[1], p[2])

SpecRanges == UtilsInit /\ [][RangeNext]_vars

---------------------------------------------------------------------------
(* Properties of the Transformer, checked under SpecTransform *)

LastCall == calls[Len(calls)]

ColumnNames == {NumericColumns[k] : k \in 1..Len(NumericColumns)}

\* a raw record that has every required section
HasSections(record) == RequiredKeys \subseteq DOMAIN record

\* a raw record that has every required section and a timestamp
ValidRecord(record) ==
    HasSections(record) /\ ({"dt", "extraction_timestamp"} \cap DOMAIN record) # {}

\* the number of values of the family vals (a function) that satisfy Test
CountOf(vals, Test(_)) == Cardinality({i \in DOMAIN vals : Test(vals[i])})

\* the j-th smallest value of the family vals, found by counting
OrderStatistic(vals, j) ==
    CHOOSE v \in {vals[i] : i \in DOMAIN vals} :
        /\ CountOf(vals, LAMBDA x: x < v) < j
        /\ j <= CountOf(vals, LAMBDA x: x <= v)

\* 20 times the (5k)-th percentile of the family vals
Percentile20(vals, k) ==
    LET pos == k * (Cardinality(DOMAIN vals) - 1)
        lo  == pos \div 20
        r   == pos % 20
    IN (20 - r) * OrderStatistic(vals, lo + 1)
       + (IF r = 0 THEN 0 ELSE r * OrderStatistic(vals, lo + 2))

\* 40 times [q1 - 1.5*(q3 - q1), q3 + 1.5*(q3 - q1)]
Fences40(vals) ==
    With(Percentile20(vals, 1), LAMBDA q1:
      With(Percentile20(vals, 19), LAMBDA q3:
        [lower |-> 2 * q1 - 3 * (q3 - q1), upper |-> 2 * q3 + 3 * (q3 - q1)]))

PresentRows(column) == {i \in DOMAIN column : column[i] # None}

\* the rows of a column whose value lies strictly outside the fences
OutlierRows(column) ==
    IF PresentRows(column) = {} THEN {}
    ELSE With(Fences40([i \in PresentRows(column) |-> Val(column[i])]), LAMBDA f:
           {i \in PresentRows(column) :
               40 * Val(column[i]) < f.lower \/ 40 * Val(column[i]) > f.upper})

\* twice the median of the non-empty family vals
TwiceMedian(vals) ==
    LET n == Cardinality(DOMAIN vals)
    IN IF n % 2 = 1 THEN 2 * OrderStatistic(vals, (n + 1) \div 2)
       ELSE OrderStatistic(vals, n \div 2) + OrderStatistic(vals, n \div 2 + 1)

\* the cleaning rule on one column
ColumnRule(before, after) ==
    With(OutlierRows(before), LAMBDA out:
      With(PresentRows(before) \ out, LAMBDA kept:
        /\ DOMAIN after = DOMAIN before
        /\ \A i \in kept : after[i] = before[i]
        /\ kept # {} =>
             With(TwiceMedian([i \in kept |-> Val(before[i])]), LAMBDA m2:
               \A i \in DOMAIN before \ kept :
                   after[i] # None /\ 2 * Val(after[i]) = m2)))

\* the outliers of a table, summed over the numeric columns
TableOutliers(df) ==
    SumSeq([k \in 1..Len(NumericColumns) |->
              Cardinality(OutlierRows(Column(df, NumericColumns[k])))])

\* C1: in the table a successful call returns, each numeric column is the
\* extracted column with the values strictly outside
\* [q1 - 1.5*(q3-q1), q3 + 1.5*(q3-q1)] (q1, q3 the 5th and 95th percentiles) and
\* the missing values replaced by the median of the remaining values, every
\* other value unchanged; and OUTLIERS_DETECTED has grown by the number of
\* outliers summed over the columns of every table that was cleaned.
C1_CleaningRule ==
    /\ (calls # <<>> /\ LastCall.outcome = "success") =>
          \A c \in ColumnNames : ColumnRule(Column(LastCall.df, c), Column(LastCall.ret, c))
    /\ OUTLIERS_DETECTED =
          SumSeq([k \in 1..Len(calls) |->
                    IF calls[k].outcome \in {"success", "exception"}
                    THEN TableOutliers(calls[k].df) ELSE 0])

\* C1 witness: a returned table with a column in which one value was an
\* outlier, one was missing, and both now hold a median that is neither.
C1_Witness ==
    /\ calls # <<>>
    /\ LastCall.outcome = "success"
    /\ OUTLIERS_DETECTED > 0
    /\ \E c \in ColumnNames :
         With(OutlierRows(Column(LastCall.df, c)), LAMBDA out:
            /\ out # {}
            /\ \E i \in out, j, k \in 1..Len(LastCall.df) :
                  /\ LastCall.df[j][c] = None
                  /\ LastCall.ret[i][c] = LastCall.ret[j][c]
                  /\ LastCall.ret[i][c] # None
                  /\ LastCall.ret[i][c] # LastCall.df[i][c]
                  /\ k \notin out
                  /\ LastCall.df[k][c] # None
                  /\ LastCall.ret[k][c] = LastCall.df[k][c])

\* C2 (as claimed): in every processed table written, every numeric field of
\* every row holds a value and the two categorical fields are never missing.
C2_CleanRecordInvariant ==
    \A t \in 1..Len(processed_dir) :
       \A i \in 1..Len(processed_dir[t]) :
          /\ \A c \in ColumnNames : processed_dir[t][i][c] # None
          /\ processed_dir[t][i].weather_condition # None
          /\ processed_dir[t][i].weather_description # None

\* C3 (as claimed): cleaning the table a call returned a second time detects
\* no outlier and leaves every numeric value unchanged.
C3_CleanIdempotent ==
    (calls # <<>> /\ LastCall.outcome = "success") =>
       With(CleanData(LastCall.ret), LAMBDA again:
          /\ again.outlier_count = 0
          /\ \A i \in 1..Len(LastCall.ret) : \A c \in ColumnNames :
                again.cleaned_df[i][c] = LastCall.ret[i][c])

\* the rows of a table derived from the raw file named name
RowsOf(table, name) == {i \in 1..Len(table) : table[i].timestamp = name}

\* C4: a raw file that cannot be parsed, and a raw record that lacks a
\* required section, yield no row and one log entry each; the only exception
\* a call meets is the save's; and every valid record of the staging area has
\* its row in the extracted table and in the table written.
C4_RecordIsolation ==
    calls # <<>> =>
       /\ \A f \in 1..Len(raw_dir) :
             IF raw_dir[f].parses /\ ValidRecord(raw_dir[f].data)
             THEN /\ \E i \in RowsOf(LastCall.df, raw_dir[f].name) :
                        LastCall.df[i].city = raw_dir[f].data.city_name
                  /\ LastCall.outcome = "success" =>
                        \E i \in RowsOf(processed_dir[Len(processed_dir)], raw_dir[f].name) :
                           processed_dir[Len(processed_dir)][i].city
                              = raw_dir[f].data.city_name
             ELSE /\ RowsOf(LastCall.df, raw_dir[f].name) = {}
                  /\ RowsOf(LastCall.ret, raw_dir[f].name) = {}
       /\ \A f \in 1..Len(raw_dir) :
             ~raw_dir[f].parses =>
                \E e \in 1..Len(LastCall.log) :
                   LastCall.log[e] = [level |-> "error", what |-> "load",
                                      file |-> raw_dir[f].name]
       /\ CountOf(LastCall.log, LAMBDA e: e.what = "skip")
             = CountOf(raw_dir, LAMBDA f: f.parses /\ ~HasSections(f.data))
       /\ CountOf(LastCall.log, LAMBDA e: e.what = "record")
             = CountOf(raw_dir, LAMBDA f: f.parses /\ HasSections(f.data)
                                          /\ ~ValidRecord(f.data))
       /\ LastCall.outcome = "exception" => ~LastCall.save_ok

\* C4 witness: a table was written from a batch in which a record lacking a
\* section was loaded between two valid records.
C4_Witness ==
    /\ calls # <<>>
    /\ LastCall.outcome = "success"
    /\ \E a, b, c \in 1..Len(LastCall.raw_data) :
          /\ a < b /\ b < c
          /\ ValidRecord(LastCall.raw_data[a])
          /\ ~HasSections(LastCall.raw_data[b])
          /\ ValidRecord(LastCall.raw_data[c])
    /\ Len(LastCall.ret) >= 2

\* no raw file of the staging area yields a row
NoValidRecord(dir) ==
    \A f \in 1..Len(dir) : ~dir[f].parses \/ ~ValidRecord(dir[f].data)

\* C5: a call on a staging area with no raw file, or with no valid record,
\* writes no processed table, returns the empty table without raising, and
\* counts one failure and no success.
C5_NoDataOutcome ==
    [][ NoValidRecord(raw_dir) =>
          /\ processed_dir' = processed_dir
          /\ Len(calls') = Len(calls) + 1
          /\ calls'[Len(calls')].ret = EmptyTable
          /\ calls'[Len(calls')].outcome # "exception"
          /\ TRANSFORM_FAILURES' = TRANSFORM_FAILURES + 1
          /\ TRANSFORM_SUCCESSES' = TRANSFORM_SUCCESSES ]_vars

\* C5 witness: a call was made on a staging area that holds raw files, none
\* of them valid.
C5_Witness ==
    /\ calls # <<>>
    /\ raw_dir # <<>>
    /\ NoValidRecord(raw_dir)
    /\ processed_dir = <<>>
    /\ TRANSFORM_FAILURES = Len(calls)

\* C6: every call returns; it adds one to exactly one of the two counters,
\* counts its outliers once and writes at most one table; a success is
\* counted only with the returned table written; a call whose save raised
\* returns the empty table, writes nothing and counts a failure.
C6_NoPropagation ==
    [][ /\ Len(calls') = Len(calls) + 1
        /\ \/ /\ TRANSFORM_SUCCESSES' = TRANSFORM_SUCCESSES + 1
              /\ TRANSFORM_FAILURES' = TRANSFORM_FAILURES
           \/ /\ TRANSFORM_SUCCESSES' = TRANSFORM_SUCCESSES
              /\ TRANSFORM_FAILURES' = TRANSFORM_FAILURES + 1
        /\ OUTLIERS_DETECTED' - OUTLIERS_DETECTED
              = (IF calls'[Len(calls')].df = EmptyTable THEN 0
                 ELSE TableOutliers(calls'[Len(calls')].df))
        /\ \/ processed_dir' = processed_dir
           \/ processed_dir' = Append(processed_dir, calls'[Len(calls')].ret)
        /\ TRANSFORM_SUCCESSES' > TRANSFORM_SUCCESSES =>
              /\ processed_dir' = Append(processed_dir, calls'[Len(calls')].ret)
              /\ calls'[Len(calls')].ret # EmptyTable
        /\ (~calls'[Len(calls')].save_ok \/ TRANSFORM_FAILURES' > TRANSFORM_FAILURES) =>
              /\ calls'[Len(calls')].ret = EmptyTable
              /\ processed_dir' = processed_dir
              /\ TRANSFORM_FAILURES' = TRANSFORM_FAILURES + 1 ]_vars

\* C6 witness: a call whose save raised after valid records were cleaned has
\* returned the empty table, and a later call has succeeded.
C6_Witness ==
    /\ Len(calls) = 2
    /\ calls[1].outcome = "exception"
    /\ calls[1].df # EmptyTable
    /\ calls[1].ret = EmptyTable
    /\ calls[2].outcome = "success"
    /\ TRANSFORM_FAILURES = 1
    /\ TRANSFORM_SUCCESSES = 1
    /\ Len(processed_dir) = 1

\* the timestamp the Transformer resolves for a valid raw record
ResolvedTimestamp(record) ==
    IF "dt" \in DOMAIN record THEN record.dt ELSE record.extraction_timestamp

\* C7: the table a successful call returns and writes has one row per valid
\* raw record, in the order the records were loaded, each row carrying the
\* city, country and timestamp of its record; cleaning keeps every row.
C7_RowCorrespondence ==
    (calls # <<>> /\ LastCall.outcome = "success") =>
       With(SelectSeq(LastCall.raw_data, ValidRecord), LAMBDA valid:
          /\ Len(LastCall.ret) = Len(valid)
          /\ Len(LastCall.ret) = Len(LastCall.df)
          /\ processed_dir[Len(processed_dir)] = LastCall.ret
          /\ \A i \in 1..Len(valid) :
                /\ LastCall.ret[i].city = valid[i].city_name
                /\ LastCall.ret[i].country = valid[i].country_code
                /\ LastCall.ret[i].timestamp = ResolvedTimestamp(valid[i]))

\* C7 witness: a table was written from a batch with a record left out, and
\* a row of it held an outlier.
C7_Witness ==
    /\ calls # <<>>
    /\ LastCall.outcome = "success"
    /\ Len(LastCall.raw_data) > Len(LastCall.ret)
    /\ \E c \in ColumnNames : \E i \in OutlierRows(Column(LastCall.df, c)) :
          LastCall.ret[i].timestamp = LastCall.df[i].timestamp

\* the number of rows of a table equal to row
Copies(table, row) == Cardinality({i \in 1..Len(table) : table[i] = row})

\* C8: two calls on the same staging area agree, whatever order each
\* enumerated the raw files in: the same outlier bounds and outlier count,
\* and, when both return a table, the same rows the same number of times.
C8_Deterministic ==
    \A a, b \in 1..Len(calls) :
       /\ calls[a].bounds = calls[b].bounds
       /\ calls[a].outliers = calls[b].outliers
       /\ (calls[a].outcome = "success" /\ calls[b].outcome = "success") =>
             /\ Len(calls[a].ret) = Len(calls[b].ret)
             /\ \A i \in 1..Len(calls[a].ret) :
                   Copies(calls[a].ret, calls[a].ret[i]) = Copies(calls[b].ret, calls[a].ret[i])

\* C8 witness: two successful calls enumerated the raw files in different
\* orders and each found an outlier.
C8_Witness ==
    /\ Len(calls) = 2
    /\ calls[1].outcome = "success"
    /\ calls[2].outcome = "success"
    /\ calls[1].raw_data # calls[2].raw_data
    /\ calls[1].outliers > 0
    /\ calls[1].ret # calls[2].ret

---------------------------------------------------------------------------
(* Properties of the Extractor, checked under SpecExtract *)

Configured == 1..Len(cities)

\* the API call for the c-th city succeeded within the retry budget
ApiSucceeded(c) ==
    /\ requests[c] # <<>>
    /\ Len(requests[c]) <= retry_attempts
    /\ requests[c][Len(requests[c])] = "ok"

\* the API call for the c-th city failed on every attempt of the budget
ApiFailedEveryAttempt(c) ==
    /\ Len(requests[c]) = retry_attempts
    /\ \A k \in 1..Len(requests[c]) : requests[c][k] = "error"

\* record is what the provider answered for the c-th city, with the three
\* injected fields
IsRecordOf(record, c) ==
    /\ DOMAIN record = DOMAIN ApiResponse(c)
                         \cup {"extraction_timestamp", "city_name", "country_code"}
    /\ \A k \in DOMAIN ApiResponse(c) : record[k] = ApiResponse(c)[k]
    /\ record.city_name = cities[c].name
    /\ record.country_code = cities[c].country
    /\ record.extraction_timestamp \in 1..Now

Stored(c) ==
    \E f \in 1..Len(raw_dir) : raw_dir[f].parses /\ IsRecordOf(raw_dir[f].data, c)

InList(list, c) == \E i \in 1..Len(list) : IsRecordOf(list[i], c)

\* extract_current_weather is done with the c-th city
PastCity(c) == pc = "done" \/ (pc \in {"waiting", "aborted"} /\ c < city)

\* C9: whenever the API call for a city X failed on every attempt, every
\* other configured city whose API call succeeded within the retry budget
\* has, once the loop is past it, its record with extraction_timestamp,
\* city_name and country_code in the staging area and in the list being
\* built, and in the list extract_current_weather returns; the failure of X
\* itself never ends the extraction: the loop goes past X, and if the
\* extraction is cut short it is at a city whose API call succeeded.
C9_ExtractorIsolation ==
    /\ \A x, y \in Configured :
          (x # y /\ ApiFailedEveryAttempt(x) /\ ApiSucceeded(y) /\ PastCity(y)) =>
             /\ Stored(y)
             /\ InList(weather_data, y)
             /\ pc = "done" => InList(Val(returned), y)
    /\ \A x \in Configured :
          (pc # "idle" /\ ApiFailedEveryAttempt(x)) => PastCity(x)
    /\ pc = "aborted" => ApiSucceeded(city)

\* C9 witness: extract_current_weather returned; the API call for the second
\* city failed on each of at least two attempts; the cities before and after
\* it, the latter on a retry, succeeded, are stored and are the two records
\* returned.
C9_Witness ==
    /\ pc = "done"
    /\ retry_attempts >= 2
    /\ \E x \in Configured :
          /\ ApiFailedEveryAttempt(x)
          /\ \E y, z \in Configured :
                /\ y < x /\ x < z
                /\ ApiSucceeded(y) /\ ApiSucceeded(z)
                /\ Len(requests[z]) >= 2
                /\ Stored(y) /\ Stored(z)
                /\ InList(Val(returned), y) /\ InList(Val(returned), z)
    /\ Len(Val(returned)) = 2

\* the HTTP requests issued for the c-th city, the pending one included
RequestsIssued(c) == Len(requests[c]) + (IF pc = "waiting" /\ city = c THEN 1 ELSE 0)

\* retry_attempts requests were made for the c-th city and all of them failed
Exhausted(c) == retry_attempts >= 1 /\ ApiFailedEveryAttempt(c)

\* C10: for each city at most retry_attempts HTTP requests are issued, and
\* none after the first successful one; a city whose retry_attempts requests
\* all failed yields an empty result (no record in the list, no raw file),
\* the failure counter counts each such city exactly once and nothing else,
\* and extraction goes on: the next city's request is issued or, after the
\* last city, extract_current_weather returns.
C10_BoundedRetry ==
    /\ \A c \in Configured : RequestsIssued(c) <= retry_attempts
    /\ \A c \in Configured : \A k \in 1..Len(requests[c]) :
          requests[c][k] = "ok" => RequestsIssued(c) = k
    /\ EXTRACT_FAILURES = Cardinality({c \in Configured : Exhausted(c)})
    /\ \A c \in Configured : Exhausted(c) =>
          /\ ~InList(weather_data, c)
          /\ ~Stored(c)
          /\ IF c < Len(cities) THEN RequestsIssued(c + 1) >= 1 ELSE pc = "done"

\* C10 witness: with a budget of at least two requests, the first and the
\* last city were given up after retry_attempts failures each, the city in
\* between succeeded on a retry, and the failure counter stands at two.
C10_Witness ==
    /\ pc = "done"
    /\ retry_attempts >= 2
    /\ Len(cities) >= 3
    /\ Exhausted(1)
    /\ Exhausted(Len(cities))
    /\ ApiSucceeded(2)
    /\ Len(requests[2]) >= 2
    /\ EXTRACT_FAILURES = 2
    /\ Len(Val(returned)) = 1

\* extract_current_weather has ended, by returning or by an exception
ExtractionEnded == pc \in {"done", "aborted"}

\* the loop of extract_current_weather reached the c-th city: a request was
\* issued for it, or it was passed over without one
Processed(c) == RequestsIssued(c) >= 1 \/ (pc = "done" /\ retry_attempts = 0)

\* C11: no error while handling one city aborts the batch: whenever
\* extract_current_weather has ended, whatever raised on the way (here the
\* write of a city's raw file), every configured city has been processed.
C11_NoCityAbortsBatch ==
    ExtractionEnded => \A c \in Configured : Processed(c)

\* the log holds an error entry about the c-th city
ErrorLogged(c) ==
    \E e \in 1..Len(extract_log) :
       extract_log[e].level = "error" /\ extract_log[e].city = cities[c].name

\* C12: no silent failure: once extract_current_weather has returned, every
\* configured city without a stored raw record has an error log entry, and
\* the failure counter has been incremented once for each such city,
\* whatever non-negative value retry_attempts has.
C12_NoSilentFailure ==
    pc = "done" =>
       /\ \A c \in Configured : ~Stored(c) => ErrorLogged(c)
       /\ EXTRACT_FAILURES = Cardinality({c \in Configured : ~Stored(c)})

---------------------------------------------------------------------------
(* Properties of run_pipeline, checked under SpecPipeline and SpecConcurrent *)

\* the stage call stands under a flag that is set in the run
Skipped(run, stage) ==
    \/ stage = "extract" /\ run.skip.skip_extract
    \/ stage = "transform" /\ run.skip.skip_transform
    \/ stage = "analyze" /\ run.skip.skip_analyze
    \/ stage \in {"load_json", "load_sqlite", "load_csv"} /\ run.skip.skip_load

\* extract, transform, analyze, load as JSON, then SQLite, then CSV
Rank(stage) ==
    CASE stage = "extract"     -> 1
      [] stage = "transform"   -> 2
      [] stage = "analyze"     -> 3
      [] stage = "load_json"   -> 4
      [] stage = "load_sqlite" -> 5
      [] stage = "load_csv"    -> 6

StageNames == {"extract", "transform", "analyze", "load_json", "load_sqlite", "load_csv"}

\* the stage call of the run has returned or raised
Returned(run, stage) ==
    \E i \in 1..Len(run.invoked) : run.invoked[i] = stage /\ run.pc # stage

\* C13: in every run and for every combination of the four skip flags, a
\* stage whose flag is set is never invoked; the stages invoked are invoked
\* in the order extract, transform, analyze, load as JSON, SQLite, CSV, each
\* once and only after the one invoked before it has returned (the
\* Extractor has returned its list before the next stage starts); a run
\* that ends without an exception has invoked every stage whose flag is not
\* set.
C13_StageOrder ==
    \A r \in DOMAIN runs :
       LET run == runs[r]
       IN  /\ \A i \in 1..Len(run.invoked) : ~Skipped(run, run.invoked[i])
           /\ \A i, j \in 1..Len(run.invoked) :
                  i < j => /\ Rank(run.invoked[i]) < Rank(run.invoked[j])
                           /\ Returned(run, run.invoked[i])
           /\ (r = Len(runs) /\ Len(run.invoked) >= 2 /\ run.invoked[1] = "extract") =>
                  pc = "done" /\ returned # None
           /\ (run.pc = "end" /\ ~run.raised) =>
                  \A stage \in StageNames :
                     ~Skipped(run, stage) => Returned(run, stage)

\* C13 witness: one run has gone through all six stage calls, and a later
\* run with skip_transform and skip_load set has ended after invoking
\* extract and analyze only.
C13_Witness ==
    \E a, b \in DOMAIN runs :
       /\ a < b
       /\ runs[a].pc = "end" /\ runs[b].pc = "end"
       /\ runs[a].invoked = <<"extract", "transform", "analyze", "load_json",
                              "load_sqlite", "load_csv">>
       /\ runs[b].skip = [skip_extract |-> FALSE, skip_transform |-> TRUE,
                          skip_analyze |-> FALSE, skip_load |-> TRUE]
       /\ runs[b].invoked = <<"extract", "analyze">>

\* C14: a stage failure does not block later stages: in every run that has
\* ended, whichever stage failed on the way, by its return value or by
\* raising, the failure is logged and every stage after it whose flag is not
\* set has been invoked.
C14_FailureDoesNotBlock ==
    \A r \in DOMAIN runs :
       LET run == runs[r]
       IN  run.pc = "end" =>
              \A f \in run.failed :
                 /\ f # "transform" =>
                       \E e \in 1..Len(run.log) :
                          run.log[e].what = (IF f = "extract" THEN "pipeline" ELSE f)
                 /\ \A stage \in StageNames :
                       (Rank(f) < Rank(stage) /\ ~Skipped(run, stage)) =>
                          Returned(run, stage)

\* C15: overall status: a run that has ended reports Failure if some stage
\* it executed failed (the Extractor raised, the Transformer reported
\* failure or no data, the Analyzer returned an empty result, a Loader
\* output returned its failure value) and Success only if every stage it
\* executed succeeded.
C15_OverallStatus ==
    \A r \in DOMAIN runs :
       runs[r].pc = "end" =>
          runs[r].success = Some(runs[r].failed = {})

\* the stages that resolve the latest processed table
Consumers == {"analyze", "load_json", "load_sqlite", "load_csv"}

\* the files of the output area that run r wrote
OutputsOf(r) == {a \in 1..Len(output_dir) : output_dir[a].run = r}

\* C16: in a run that no other run is interleaved with and whose
\* Transformer wrote a table, the Analyzer and each Loader output read
\* exactly that table: every resolution of the run, and every file the run
\* wrote to the output area, has the run's own write as its source, and
\* while the run lasts that write is the most recent one in the
\* processed-data area.
C16_RunConsistency ==
    \A r \in DOMAIN runs :
       LET run == runs[r]
       IN  (run.alone /\ run.wrote # None) =>
              /\ \A i \in 1..Len(run.reads) : run.reads[i].source = Val(run.wrote)
              /\ \A a \in OutputsOf(r) : output_dir[a].source = Val(run.wrote)
              /\ \A stage \in Consumers :
                    (Returned(run, stage) /\ ~Skipped(run, stage)) =>
                       \E i \in 1..Len(run.reads) : run.reads[i].stage = stage
              /\ Active(r) => Val(run.wrote) = Len(processed_dir)

\* C16 witness: the second run found an older table under another name in
\* the processed-data area, wrote its own, and its Analyzer and its three
\* Loader outputs all read the run's own table and wrote their files.
C16_Witness ==
    /\ Len(runs) = 2
    /\ runs[2].pc = "end"
    /\ runs[2].wrote = Some(2)
    /\ processed_names[1] # processed_names[2]
    /\ Len(runs[2].reads) = 4
    /\ \A i \in 1..4 : runs[2].reads[i].source = 2
    /\ {output_dir[a].kind : a \in OutputsOf(2)}
          = {"analysis", "figures", "json", "sqlite", "summary", "report"}

\* the writes earlier runs left in the processed-data area
LeftBefore(r) == {Val(runs[q].wrote) : q \in {p \in 1..(r - 1) : runs[p].wrote # None}}

\* the most recent of them
LastLeftBefore(r) == CHOOSE w \in LeftBefore(r) : \A v \in LeftBefore(r) : v <= w

\* C17: dependence on filesystem state only: in a run that has ended, whose
\* Transformer was skipped or wrote nothing, while an earlier run left a
\* processed table, the Analyzer and the three Loader calls whose flag is
\* not set were all executed, and each read the table the earlier run left.
C17_FilesystemStateOnly ==
    \A r \in DOMAIN runs :
       LET run == runs[r]
       IN  (run.pc = "end" /\ run.wrote = None /\ LeftBefore(r) # {}) =>
              \A stage \in Consumers :
                 ~Skipped(run, stage) =>
                    /\ Returned(run, stage)
                    /\ \E i \in 1..Len(run.reads) :
                          /\ run.reads[i].stage = stage
                          /\ run.reads[i].source = LastLeftBefore(r)

\* the Loader's three outputs proper
LoaderKinds == {"json", "sqlite", "report"}

\* C18: concurrent runs are unsafe, and nothing in the system prevents it:
\* whenever a stage of any run resolves the latest processed table, what it
\* reads is the most recent write in the processed-data area at that moment,
\* whichever run made it and whether or not the reading run has written a
\* table of its own.
C18_LatestWhoeverWroteIt ==
    [][\A r \in DOMAIN runs :
          Len(runs'[r].reads) > Len(runs[r].reads) =>
             runs'[r].reads[Len(runs'[r].reads)].source = Len(processed_dir)]_vars

\* C18 witness: two runs were under way at once; one of them wrote its own
\* table, yet one of its stages read the table the other run's Transformer
\* wrote, and its JSON, SQLite and CSV outputs do not all derive from the
\* same table.
C18_Witness ==
    \E a, b \in DOMAIN runs :
       /\ a # b
       /\ ~runs[a].alone
       /\ runs[a].wrote # None /\ runs[b].wrote # None
       /\ \E i \in 1..Len(runs[a].reads) : runs[a].reads[i].source = Val(runs[b].wrote)
       /\ {output_dir[x].kind : x \in OutputsOf(a)} \cap LoaderKinds = LoaderKinds
       /\ \E x, y \in OutputsOf(a) :
             /\ output_dir[x].kind \in LoaderKinds
             /\ output_dir[y].kind \in LoaderKinds
             /\ output_dir[x].source # output_dir[y].source

\* C19: processed tables are immutable once created: every table the
\* Transformer writes goes under a file name that no write before it, of an
\* earlier or of a concurrent run, has used, so that no processed table
\* file is ever overwritten.
C19_ProcessedImmutable ==
    \A i, j \in 1..Len(processed_names) :
       i < j => processed_names[i] # processed_names[j]

\* run r executes a stage that resolves the latest processed table
Consumes(r) == runs[r].pc \in Consumers /\ runs'[r].pc # runs[r].pc

\* the value the stage call of run r returned in this step
JustReturned(r) == runs'[r].results[Len(runs'[r].results)]

\* C20: with no table in the processed-data area, analyze_data returns an
\* empty result and load_to_json, load_to_sqlite and load_to_csv return "",
\* False and ""; the call does not raise, nothing is written to the output
\* area, and the stage's failure counter, and no other counter, grows by
\* exactly one.
C20_AbsentTableTolerated ==
    [][\A r \in DOMAIN runs :
          (processed_names = <<>> /\ Consumes(r)) =>
             /\ Len(runs'[r].results) = Len(runs[r].results) + 1
             /\ JustReturned(r).stage = runs[r].pc
             /\ JustReturned(r).value =
                   (CASE runs[r].pc = "analyze"     -> "{}"
                      [] runs[r].pc = "load_json"   -> ""
                      [] runs[r].pc = "load_sqlite" -> "False"
                      [] runs[r].pc = "load_csv"    -> "")
             /\ ~runs'[r].raised
             /\ output_dir' = output_dir
             /\ ANALYSIS_SUCCESSES' = ANALYSIS_SUCCESSES
             /\ LOAD_SUCCESSES' = LOAD_SUCCESSES
             /\ PIPELINE_FAILURES' = PIPELINE_FAILURES
             /\ ANALYSIS_FAILURES' =
                   ANALYSIS_FAILURES + (IF runs[r].pc = "analyze" THEN 1 ELSE 0)
             /\ LOAD_FAILURES' = LOAD_FAILURES + (IF runs[r].pc = "analyze" THEN 0 ELSE 1)]_vars

\* C20 witness: a run has gone through the Analyzer and the three Loader
\* calls with the processed-data area empty: four failure values were
\* returned, the output area is still empty, the Analyzer's failure counter
\* stands at one and the Loader's at three.
C20_Witness ==
    /\ processed_names = <<>>
    /\ Len(runs) = 1
    /\ runs[1].pc = "end"
    /\ ~runs[1].raised
    /\ [i \in 1..Len(runs[1].results) |-> runs[1].results[i].value]
          = <<"{}", "", "False", "">>
    /\ output_dir = <<>>
    /\ ANALYSIS_FAILURES = 1
    /\ LOAD_FAILURES = 3

---------------------------------------------------------------------------
(* Properties of the Loader, checked under SpecFaults *)

LoaderCalls == {"load_json", "load_sqlite", "load_csv"}

\* what run_pipeline does once a Loader call has returned
AfterLoad(stage) ==
    CASE stage = "load_json"   -> "load_sqlite"
      [] stage = "load_sqlite" -> "load_csv"
      [] stage = "load_csv"    -> "end"

\* the files a Loader call writes
KindsOf(stage) ==
    CASE stage = "load_json"   -> {"json"}
      [] stage = "load_sqlite" -> {"sqlite"}
      [] stage = "load_csv"    -> {"summary", "report"}

\* the value a Loader call returns when it has written its output
Success(stage) ==
    CASE stage = "load_json"   -> "output_file"
      [] stage = "load_sqlite" -> "True"
      [] stage = "load_csv"    -> "output_file"

\* the value a Loader call returns when it has not
Failure(stage) ==
    CASE stage = "load_json"   -> ""
      [] stage = "load_sqlite" -> "False"
      [] stage = "load_csv"    -> ""

\* C21: Loader outputs are independent: whatever the Loader calls before it
\* returned, each of load_to_json, load_to_sqlite and load_to_csv is followed
\* by the next call (none raises into run_pipeline), returns its own success
\* or failure value, which is the success value exactly when its own files
\* were written, leaves the results and the files of the other calls as they
\* are, and counts itself once as a success or as a failure.
C21_LoaderIndependence ==
    [][\A r \in DOMAIN runs :
          (runs[r].pc \in LoaderCalls /\ runs'[r].pc # runs[r].pc) =>
             LET stage   == runs[r].pc
                 results == runs'[r].results
                 value   == results[Len(results)].value
                 new     == (Len(output_dir) + 1)..Len(output_dir')
             IN  /\ runs'[r].pc = AfterLoad(stage)
                 /\ ~runs'[r].raised
                 /\ Len(results) = Len(runs[r].results) + 1
                 /\ \A i \in 1..Len(runs[r].results) : results[i] = runs[r].results[i]
                 /\ results[Len(results)].stage = stage
                 /\ \A a \in 1..Len(output_dir) : output_dir'[a] = output_dir[a]
                 /\ \A a \in new : output_dir'[a].run = r
                 /\ \/ /\ value = Success(stage)
                       /\ {output_dir'[a].kind : a \in new} = KindsOf(stage)
                       /\ LOAD_SUCCESSES' = LOAD_SUCCESSES + 1
                       /\ LOAD_FAILURES' = LOAD_FAILURES
                    \/ /\ value = Failure(stage)
                       /\ new = {}
                       /\ LOAD_SUCCESSES' = LOAD_SUCCESSES
                       /\ LOAD_FAILURES' = LOAD_FAILURES + 1]_vars

\* the values the three Loader calls of a run returned
LoaderValues(run) ==
    LET loads == SelectSeq(run.results, LAMBDA e: e.stage \in LoaderCalls)
    IN  [i \in 1..Len(loads) |-> loads[i].value]

\* C21 witness: with a processed table in place, a run's load_to_json failed,
\* its load_to_sqlite then succeeded and its load_to_csv failed: of the
\* Loader's files the run wrote the database alone.
C21_Witness ==
    \E r \in DOMAIN runs :
       /\ runs[r].pc = "end"
       /\ ~runs[r].raised
       /\ processed_names # <<>>
       /\ LoaderValues(runs[r]) = <<"", "True", "">>
       /\ {output_dir[a].kind : a \in OutputsOf(r)} \cap {"json", "sqlite", "summary", "report"}
             = {"sqlite"}
       /\ LOAD_FAILURES >= 2

\* the writes of the database file, oldest first
SqliteWrites == SelectSeq(output_dir, LAMBDA a: a.kind = "sqlite")

\* C22: relational load is idempotent: after every load_to_sqlite that
\* returned True, the first as well as any later one on the same processed
\* table, the database holds exactly one table, weather_data, with as many
\* rows as the processed table it was loaded from, and with an index on city
\* and an index on date.
C22_SqliteIdempotent ==
    \A w \in 1..Len(SqliteWrites) :
       LET db    == SqliteWrites[w].db
           table == processed_dir[SqliteWrites[w].source]
       IN  /\ DOMAIN db = {"weather_data"}
           /\ Len(db["weather_data"].rows) = Len(table)
           /\ {i.column : i \in db["weather_data"].indexes} = {"city", "date"}
           /\ Cardinality(db["weather_data"].indexes) = 2

\* C22 witness: load_to_sqlite has been applied twice to the same processed
\* table, which has a row, and the database holds that many rows.
C22_Witness ==
    /\ Len(SqliteWrites) = 2
    /\ SqliteWrites[1].source = SqliteWrites[2].source
    /\ SqliteWrites[1].run # SqliteWrites[2].run
    /\ Len(processed_dir[SqliteWrites[2].source]) >= 1
    /\ Len(SqliteWrites[2].db["weather_data"].rows)
          = Len(processed_dir[SqliteWrites[2].source])

---------------------------------------------------------------------------
(* Further properties of the Transformer, checked under SpecTransform *)

\* the raw records of the staging area that were loaded and gave no row
RecordsSkipped(dir) == CountOf(dir, LAMBDA f: f.parses /\ ~ValidRecord(f.data))

\* the raw records of the staging area that gave a row
RecordsParsed(dir) == CountOf(dir, LAMBDA f: f.parses /\ ValidRecord(f.data))

\* the outliers of the table call k cleaned
OutliersOfCall(k) ==
    IF calls[k].outcome \in {"success", "exception"} THEN TableOutliers(calls[k].df) ELSE 0

\* what the Transformer's metrics read
TransformerMetrics ==
    {FILES_PROCESSED, RECORDS_PROCESSED, OUTLIERS_DETECTED, TRANSFORM_SUCCESSES,
     TRANSFORM_FAILURES}

\* the files, the parsed records and the outliers are reported
ReportedByMetrics ==
    calls # <<>> =>
       /\ FILES_PROCESSED = Len(raw_dir)
       /\ RECORDS_PROCESSED = RecordsParsed(raw_dir)
       /\ OUTLIERS_DETECTED - SumSeq([k \in 1..(Len(calls) - 1) |-> OutliersOfCall(k)])
             = OutliersOfCall(Len(calls))

\* C23 (as claimed): after each Transformer run the counters report the
\* number of raw files seen in the staging area, the number of records
\* parsed into rows, the number of outliers detected in that run (the
\* growth of the outlier counter), and the number of records skipped: some
\* metric of the Transformer reads that number.
C23_TransformerCounters ==
    calls # <<>> =>
       /\ ReportedByMetrics
       /\ RecordsSkipped(raw_dir) \in TransformerMetrics

---------------------------------------------------------------------------
(* Properties of the temperature conversions, checked under SpecConversions *)

\* the conversion that undoes fn
Inverse(fn) ==
    IF fn = "celsius_to_fahrenheit" THEN "fahrenheit_to_celsius"
    ELSE "celsius_to_fahrenheit"

\* call j converts back what call i returned
Undoes(j, i) ==
    /\ j = i + 1
    /\ util_calls[j].fn = Inverse(util_calls[i].fn)
    /\ util_calls[j].arg = util_calls[i].ret

\* call i is fn applied to the integer n
Applies(i, fn, n) == util_calls[i].fn = fn /\ util_calls[i].arg = FromInt(n)

\* 0 C is 32 F, 100 C is 212 F, -40 C is -40 F, each way
FixedPoints ==
    \A i \in 1..Len(util_calls) :
       /\ Applies(i, "celsius_to_fahrenheit", 0) => util_calls[i].ret = FromInt(32)
       /\ Applies(i, "celsius_to_fahrenheit", 100) => util_calls[i].ret = FromInt(212)
       /\ Applies(i, "celsius_to_fahrenheit", -40) => util_calls[i].ret = FromInt(-40)
       /\ Applies(i, "fahrenheit_to_celsius", 32) => util_calls[i].ret = FromInt(0)
       /\ Applies(i, "fahrenheit_to_celsius", 212) => util_calls[i].ret = FromInt(100)
       /\ Applies(i, "fahrenheit_to_celsius", -40) => util_calls[i].ret = FromInt(-40)

\* C24 (as claimed): the two conversions are mutual inverses: converting a
\* temperature and converting the result back returns the temperature
\* itself, in either order, and 0 C, 100 C and -40 C are 32 F, 212 F and
\* -40 F.
C24_MutualInverses ==
    /\ \A i, j \in 1..Len(util_calls) :
          Undoes(j, i) => util_calls[j].ret = util_calls[i].arg
    /\ FixedPoints

\* |x| <= |y|
MagnitudeLeq(x, y) ==
    \/ x.mant = <<>>
    \/ /\ y.mant # <<>>
       /\ \/ x.exp < y.exp
          \/ x.exp = y.exp /\ ~LessLimbs(y.mant, x.mant)

\* |a - t| <= 2^-40 * max(1, |t|)
Close(a, t) ==
    LET scale == IF MagnitudeLeq(t, FromInt(1)) THEN FromInt(1) ELSE t
    IN  MagnitudeLeq(FloatAdd(a, Neg(t)), [scale EXCEPT !.exp = @ - 40])

\* C24 (amended): converting a temperature and converting the result back
\* returns the temperature within floating-point tolerance, in either order
\* (the difference is at most 2^-40 times the larger of 1 and the
\* temperature's magnitude), and 0 C, 100 C and -40 C are exactly 32 F,
\* 212 F and -40 F, each way.
C24_InversesWithinTolerance ==
    /\ \A i, j \in 1..Len(util_calls) :
          Undoes(j, i) => Close(util_calls[j].ret, util_calls[i].arg)
    /\ FixedPoints

\* C24 witness: 1 C was converted to Fahrenheit and the result back to
\* Celsius; what came back is not 1, and is within the tolerance of it.
C24_Witness ==
    /\ Len(util_calls) = 2
    /\ Applies(1, "celsius_to_fahrenheit", 1)
    /\ Undoes(2, 1)
    /\ util_calls[2].ret # FromInt(1)
    /\ Close(util_calls[2].ret, FromInt(1))

---------------------------------------------------------------------------
(* Properties of get_date_range, checked under SpecRanges *)

\* s spells a date of the calendar
ValidDate(s) ==
    /\ Len(s) = 3
    /\ 1 <= s[1] /\ s[1] <= 9999
    /\ 1 <= s[2] /\ s[2] <= 12
    /\ 1 <= s[3]
    /\ s[3] <= (IF s[2] = 2
                THEN (IF s[1] % 400 = 0 \/ (s[1] % 4 = 0 /\ s[1] % 100 # 0) THEN 29 ELSE 28)
                ELSE IF s[2] \in {4, 6, 9, 11} THEN 30 ELSE 31)

\* the days of the months of a common year before month m
DaysBeforeMonth(m) == <<0, 31, 59, 90, 120, 151, 181, 212, 243, 273, 304, 334>>[m]

\* the number of the day s spells, counted from 0001-01-01
Ordinal(s) ==
    LET y == s[1] - 1
    IN  365 * y + (y \div 4) - (y \div 100) + (y \div 400)
        + DaysBeforeMonth(s[2])
        + (IF s[2] > 2 /\ (s[1] % 400 = 0 \/ (s[1] % 4 = 0 /\ s[1] % 100 # 0)) THEN 1 ELSE 0)
        + s[3]

\* C25 (as claimed): get_date_range is inclusive of both endpoints: for all
\* valid dates start <= end it returns exactly (end - start in days) + 1
\* consecutive, strictly increasing dates, the first being start and the
\* last end; for start > end, or an unparsable date, it returns the empty
\* list; it never raises.
C25_DateRangeInclusive ==
    \A c \in 1..Len(util_calls) :
       util_calls[c].fn = "get_date_range" =>
          LET start == util_calls[c].arg[1]
              end   == util_calls[c].arg[2]
              ret   == util_calls[c].ret
          IN  IF ValidDate(start) /\ ValidDate(end) /\ Ordinal(start) <= Ordinal(end)
              THEN /\ Len(ret) = Ordinal(end) - Ordinal(start) + 1
                   /\ ret[1] = start
                   /\ ret[Len(ret)] = end
                   /\ \A i \in 1..Len(ret) :
                         ValidDate(ret[i]) /\ Ordinal(ret[i]) = Ordinal(start) + i - 1
              ELSE ret = <<>>

\* the claim for the ranges that end before 9999-12-31
DateRangeInclusiveBeforeMax ==
    \A c \in 1..Len(util_calls) :
       (util_calls[c].fn = "get_date_range" /\ util_calls[c].arg[2] # <<9999, 12, 31>>)
          => C25_DateRangeInclusive

---------------------------------------------------------------------------
(* Termination, checked under SpecTermination *)

RequestPending(c) == pc = "waiting" /\ city = c

InExtraction(r) == r \in DOMAIN runs /\ runs[r].pc = "extract"

Reported(r) == r \in DOMAIN runs /\ runs[r].pc = "end"

\* C26: every run terminates: no city is requested more than retry_attempts
\* times and _make_api_request comes back for it; extract_current_weather,
\* once called, returns or raises; every run_pipeline execution reaches its
\* final status report, whatever its skip flags and whichever requests fail.
C26_Termination ==
    [](/\ \A c \in DOMAIN requests : Len(requests[c]) <= retry_attempts
       /\ \A c \in 1..MaxCities : RequestPending(c) => <>~RequestPending(c)
       /\ \A r \in 1..MaxRuns : InExtraction(r) => <>(pc \in {"done", "aborted"})
       /\ \A r \in 1..MaxRuns : (r \in DOMAIN runs) => <>Reported(r))

\* a run that extracted, gave one city up after retry_attempts > 1 failed
\* requests, got another city's observation after a failed request, went
\* through every phase and reported its status
C26_Witness ==
    \E r \in DOMAIN runs :
       /\ Reported(r)
       /\ runs[r].invoked = Stages
       /\ retry_attempts > 1
       /\ \E c, d \in DOMAIN requests :
             /\ requests[c] = [k \in 1..retry_attempts |-> "error"]
             /\ Len(requests[d]) > 1
             /\ requests[d][Len(requests[d])] = "ok"

---------------------------------------------------------------------------
(* Properties of the staging area, checked under SpecPipeline *)

\* this step saved an observation: the request was answered with one and
\* the write of its raw file did not raise
SavesObservation == EXTRACT_SUCCESSES' = EXTRACT_SUCCESSES + 1 /\ pc' # "aborted"

\* every raw file is still there, under its name and with its content
RawFilesKept == \A i \in 1..Len(raw_dir) : \E j \in 1..Len(raw_dir') : raw_dir'[j] = raw_dir[i]

\* C27: raw observations are immutable and accumulate: no step modifies,
\* overwrites or deletes a raw file, and every observation that is saved
\* gets a file of its own, so that the staging area only grows.
C27_RawImmutable ==
    [][/\ RawFilesKept
       /\ SavesObservation => Len(raw_dir') = Len(raw_dir) + 1]_vars

---------------------------------------------------------------------------
(* The temperature range, checked under SpecSparse *)

\* the raw records that carry both temp_min and temp_max
CarryBoth ==
    {f \in 1..Len(raw_dir) :
        /\ raw_dir[f].parses
        /\ "main" \in DOMAIN raw_dir[f].data
        /\ {"temp_min", "temp_max"} \subseteq DOMAIN raw_dir[f].data.main}

\* each of them has temp_min <= temp_max
RawRangesOrdered ==
    \A f \in CarryBoth : raw_dir[f].data.main.temp_min <= raw_dir[f].data.main.temp_max

\* the rows of the processed tables
ProcessedRows ==
    UNION {{processed_dir[t][i] : i \in 1..Len(processed_dir[t])} :
              t \in 1..Len(processed_dir)}

\* temp_range is the row's temp_max minus its temp_min, missing when one is
RangeIsDifference ==
    \A row \in ProcessedRows :
       IF row.temp_max = None \/ row.temp_min = None THEN row.temp_range = None
       ELSE /\ row.temp_range # None
            /\ Val(row.temp_range) = Val(row.temp_max) - Val(row.temp_min)

\* C28: in every processed table, temp_range of each row is that row's
\* temp_max minus its temp_min after imputation, and when every raw record
\* that carries both fields has temp_min <= temp_max, temp_range >= 0 in
\* every row.
C28_NonNegativeRange ==
    /\ RangeIsDifference
    /\ RawRangesOrdered =>
          \A row \in ProcessedRows : row.temp_range # None /\ Val(row.temp_range) >= 0

---------------------------------------------------------------------------
(* The two transformations, checked under SpecShapes *)

DagTransformed == dag_run["transform_weather_data"]

\* the table the DAG's transform task wrote; no row when it wrote none
DagTable == IF DagTransformed.wrote = None THEN <<>> ELSE Val(DagTransformed.wrote)

\* the raw records with a row in the table; a raw record is known by its
\* timestamp
Contributors(table) == {table[i].timestamp : i \in 1..Len(table)}

\* neither of the two writes was made to fail
NoWriteFault(k) ==
    /\ calls[k].save_ok
    /\ Val(DagTransformed.ret).status = "error" => Val(DagTransformed.ret).error # "to_csv"

\* C29: the DAG's transform task and the standalone Transformer agree on the
\* shape of their output: on the same raw files, a raw record has a row
\* under one iff it has a row under the other, and one writes a processed
\* file iff the other does; neither writes a file when no record is valid.
C29_ShapesAgree ==
    \A k \in 1..Len(calls) :
       (DagTransformed.state = "success" /\ NoWriteFault(k)) =>
          /\ Contributors(calls[k].ret) = Contributors(DagTable)
          /\ (calls[k].wrote = None) <=> (DagTransformed.wrote = None)
          /\ calls[k].df = <<>> => DagTransformed.wrote = None

\* the staging area holds only files that parse, and a valid record
ParsesWithValidRecord ==
    /\ \A f \in 1..Len(raw_dir) : raw_dir[f].parses
    /\ \E f \in 1..Len(raw_dir) : ValidRecord(raw_dir[f].data)

\* on such staging areas the two do agree
ShapesAgreeOnSoundBatches == ParsesWithValidRecord => C29_ShapesAgree

---------------------------------------------------------------------------
(* The notification, checked under SpecDag *)

Upstream == {"extract_weather_data", "transform_weather_data", "analyze_weather_data",
             "load_weather_data"}

\* what task t returned is a success result: for the extract task, a list
\* with no city in error
SuccessResult(t) ==
    /\ dag_run[t].ret # None
    /\ IF t = "extract_weather_data"
       THEN \A i \in 1..Len(Val(dag_run[t].ret)) : Val(dag_run[t].ret)[i].status = "success"
       ELSE Val(dag_run[t].ret).status = "success"

\* a task instance has been started only after every task before it succeeded
RunInOrder ==
    \A k \in 1..Len(Tasks) :
       dag_run[Tasks[k]].state # "none" =>
          \A j \in 1..(k - 1) : dag_run[Tasks[j]].state = "success"

\* C30: send_notification runs only after extract, transform, analyze and
\* load have completed, in that order, and its notification carries status
\* 'success' only if each of the four returned a success result, none of
\* them status 'error' or 'no_data'.
C30_NotificationTruthful ==
    /\ RunInOrder
    /\ (/\ dag_run["send_notification"].ret # None
        /\ Val(dag_run["send_notification"].ret).status = "success")
       => \A t \in Upstream : SuccessResult(t)

=========================================================================
